---- MODULE Spec2Model ----
(***************************************************************************)
(* A model of the Facebook video extractor (server) of zedd-downloader:    *)
(* FacebookVideoExtractor, the POST /extract-videos route that calls it,   *)
(* and the filtering helpers of the class.                                 *)
(*                                                                         *)
(* TEXT.  A piece of text (a URL, the value of an attribute, ...) is a     *)
(* sequence of tokens.  A token is a TLA+ string standing for a fixed run  *)
(* of characters: a literal token stands for itself ("https://", "/m412/", *)
(* ".mp4"), a token that begins with "~" stands for opaque text of         *)
(* letters and digits of a stated length (a file hash, a signature) that   *)
(* contains none of the literals the program looks for.  Every string      *)
(* operation of the program (includes, startsWith, length, the regular     *)
(* expressions) is computed on the tokens from the facts in TokenFacts     *)
(* and Lits.                                                               *)
(***************************************************************************)
EXTENDS Integers, Sequences, FiniteSets, TLC

VARIABLES
    lastIndex,    \* lastIndex of each regular expression of this.videoPatterns of the shared extractor
    body,         \* what the requests carry as sourceCode: its type, its length, its markup
    consumed,     \* the points the rate limiter has counted for the client in the current window
    fetched,      \* the urls GET /proxy-video has fetched upstream
    sourceCode,   \* req.body.sourceCode of the requests: the pasted page, a sequence of items
    pc,           \* where the current call is: "idle", "patterns", "fallback", "cheerio", "structured", "sort", "returned"
    cleaned,      \* const cleanHtml of extractVideos
    videos,       \* const videos of extractVideos (the array under construction)
    foundUrls,    \* const foundUrls of extractVideos
    origin,       \* for each element of videos, the stage that pushed it and the rule index (-1 when not a rule)
    stages,       \* the stages the current call has run, in order
    returned,     \* the arrays returned by the finished calls of extractVideos, in order
    responses,    \* the responses the route has sent, in order
    cands,        \* argument `videos` of the filtering helpers (identifyMainVideos, contextualVideoFiltering)
    mainVideos,   \* result of identifyMainVideos(cands); <<"none">> before the call
    limited,      \* result of limitToMainContent(cands)
    contextual,   \* result of contextualVideoFiltering(cands, sourceCode); <<"none">> before the call
    textarea,     \* sourceCodeTextarea.value of the page, by what the submit handler tests of it
    extractBtn,   \* extractBtn.disabled and the display of the spinner
    inFlight,     \* the calls of fetch('/extract-videos') that have not settled, by submission number
    submitted,    \* the number of calls of extractVideoLinks so far
    results,      \* results.style.display and the request whose videos videoResults holds
    errorMessage, \* errorMessage.style.display, what errorText holds and when showError wrote it
    timers,       \* the pending setTimeout(hideError, 10000), each by the time it is due
    now           \* the time of the page, in seconds

\* the state of the server and the state of the page
server == <<lastIndex, body, consumed, fetched, sourceCode, pc, cleaned, videos, foundUrls, origin, stages, returned,
            responses, cands, mainVideos, limited, contextual>>

front == <<textarea, extractBtn, inFlight, submitted, results, errorMessage, timers, now>>

vars == <<server, front>>

----------------------------------------------------------------------------
(* Bounds of the model *)

\* items of a generated page
MaxItems == 2
\* distinct videos of the "listing" pages (pages that embed many different videos)
MaxListing == 21
\* calls of extractVideos on the same page
MaxCalls == 2
\* candidates handed to the filtering helpers
MaxCands == 3
\* requests the page submits
MaxRequests == 2
\* seconds the clock of the page runs
MaxTime == 11
\* timers of showError pending at a time
MaxTimers == 2

----------------------------------------------------------------------------
(* Tokens *)

ListingHash(i) == "~K" \o ToString(i)
ListingHashes == { ListingHash(i) : i \in 1..MaxListing }

\* token |-> << length, first character, last character, word? >>
\* first/last are "w" for a character of [A-Za-z0-9_-]; word? says that every
\* character is one.
TokenFacts ==
    [t \in ListingHashes |-> <<44, "w", "w", TRUE>>] @@
    ( "https://"        :> <<8, "w", "/", FALSE>>
   @@ "http://"         :> <<7, "w", "/", FALSE>>
   @@ "ftp://"          :> <<6, "w", "/", FALSE>>
   @@ "scontent"        :> <<8, "w", "w", TRUE>>
   @@ "video"           :> <<5, "w", "w", TRUE>>
   @@ "media"           :> <<5, "w", "w", TRUE>>
   @@ ".fna.fbcdn.net"  :> <<14, ".", "w", FALSE>>
   @@ ".example.com"    :> <<12, ".", "w", FALSE>>
   @@ ".facebook.com"   :> <<13, ".", "w", FALSE>>
   @@ "[::"             :> <<3, "[", ":", FALSE>>
   @@ "/o1/v/t2/f2"     :> <<11, "/", "w", FALSE>>
   @@ "/videos"         :> <<7, "/", "w", FALSE>>
   @@ "/"               :> <<1, "/", "/", FALSE>>
   @@ "/m412/"          :> <<6, "/", "/", FALSE>>
   @@ "/m540/"          :> <<6, "/", "/", FALSE>>
   @@ "/m366/"          :> <<6, "/", "/", FALSE>>
   @@ "/m78/"           :> <<5, "/", "/", FALSE>>
   @@ "/m69/"           :> <<5, "/", "/", FALSE>>
   @@ "~A1"             :> <<44, "w", "w", TRUE>>
   @@ "~A2"             :> <<44, "w", "w", TRUE>>
   @@ "~B1"             :> <<44, "w", "w", TRUE>>
   @@ "~C1"             :> <<34, "w", "w", TRUE>>
   @@ "~D1"             :> <<12, "w", "w", TRUE>>
   @@ ".mp4"            :> <<4, ".", "w", FALSE>>
   @@ ".mpd"            :> <<4, ".", "w", FALSE>>
   @@ "?"               :> <<1, "?", "?", FALSE>>
   @@ "&"               :> <<1, "&", "&", FALSE>>
   @@ "&amp;"           :> <<5, "&", ";", FALSE>>
   @@ "\\u0026"         :> <<6, "\\", "w", FALSE>>
   @@ "u0026"           :> <<5, "w", "w", TRUE>>
   @@ "_nc_cat="        :> <<8, "w", "=", FALSE>>
   @@ "_nc_ht="         :> <<7, "w", "=", FALSE>>
   @@ "oh="             :> <<3, "w", "=", FALSE>>
   @@ "_nc_ohc="        :> <<8, "w", "=", FALSE>>
   @@ "efg="            :> <<4, "w", "=", FALSE>>
   @@ "ccb="            :> <<4, "w", "=", FALSE>>
   @@ "q="              :> <<2, "w", "=", FALSE>>
   @@ "video_id="       :> <<9, "w", "=", FALSE>>
   @@ "100200300"       :> <<9, "w", "w", TRUE>>
   @@ "~v"              :> <<3, "w", "w", TRUE>>
   @@ "~fill3000"       :> <<3000, " ", " ", FALSE>>
   @@ "~sig120"         :> <<120, "w", "w", TRUE>>
   @@ "~sig250"         :> <<250, "w", "w", TRUE>>
   @@ "hd"              :> <<2, "w", "w", TRUE>>
   @@ "sd"              :> <<2, "w", "w", TRUE>>
   @@ "4k"              :> <<2, "w", "w", TRUE>>
   @@ "2k"              :> <<2, "w", "w", TRUE>>
   @@ "low"             :> <<3, "w", "w", TRUE>>
   @@ "1080"            :> <<4, "w", "w", TRUE>>
   @@ "720"             :> <<3, "w", "w", TRUE>>
   @@ "480"             :> <<3, "w", "w", TRUE>>
   @@ "360"             :> <<3, "w", "w", TRUE>>
   @@ "dash"            :> <<4, "w", "w", TRUE>>
   @@ "segment"         :> <<7, "w", "w", TRUE>>
   @@ "manifest"        :> <<8, "w", "w", TRUE>>
   @@ "preview"         :> <<7, "w", "w", TRUE>>
   @@ "thumb"           :> <<5, "w", "w", TRUE>>
   @@ "chunk"           :> <<5, "w", "w", TRUE>>
   @@ "indexRange"      :> <<10, "w", "w", TRUE>>
   @@ "fragment"        :> <<8, "w", "w", TRUE>>
   @@ ">"               :> <<1, ">", ">", FALSE>>
   @@ "</video>"        :> <<8, "<", ">", FALSE>>
   @@ "<BaseURL>"       :> <<9, "<", ">", FALSE>>
   @@ "</BaseURL>"      :> <<10, "<", ">", FALSE>>
   @@ "&amp;amp;"       :> <<9, "&", ";", FALSE>>
   @@ "&amp;quot;"      :> <<10, "&", ";", FALSE>>
   @@ "&quot;"          :> <<6, "&", ";", FALSE>>
   @@ "\\u005Cu0026"    :> <<11, "\\", "w", FALSE>>
   @@ "%26"             :> <<3, "%", "w", FALSE>>
   @@ "%zz"             :> <<3, "%", "w", FALSE>> )

TokLen(t) == TokenFacts[t][1]
FirstChar(t) == TokenFacts[t][2]
LastChar(t) == TokenFacts[t][3]
IsWord(t) == TokenFacts[t][4]

\* The literals the program searches for that occur inside the text of token t
\* (letters compared without case).  A token not listed contains only itself.
Lits(t) ==
    CASE t = ".fna.fbcdn.net" -> {".fna.fbcdn.net", ".fbcdn.net", "fbcdn.net", "fbcdn"}
      [] t = ".facebook.com"  -> {".facebook.com", "facebook.com"}
      [] t = "/o1/v/t2/f2"    -> {"/o1/v/", "/v/", "v/"}
      [] t = "/videos"        -> {"video"}
      [] t = "/m412/"         -> {"/m412/", "/m412"}
      [] t = "/m540/"         -> {"/m540/", "/m540"}
      [] t = "/m366/"         -> {"/m366/", "/m366"}
      [] t = "/m78/"          -> {"/m78/", "/m78"}
      [] t = "/m69/"          -> {"/m69/", "/m69"}
      [] t = "video_id="      -> {"video_id=", "video"}
      [] t = "</video>"       -> {"<", ">", "video"}
      [] t = "<BaseURL>"      -> {"<", ">", "BaseURL"}
      [] t = "</BaseURL>"     -> {"<", ">", "BaseURL"}
      [] OTHER                -> {t}

\* url.length
RECURSIVE Length(_)
Length(s) == IF s = <<>> THEN 0 ELSE TokLen(Head(s)) + Length(Tail(s))

\* url.includes(lit), for a literal that lies inside one token
Includes(s, lit) == \E i \in DOMAIN s : lit \in Lits(s[i])

\* url.includes(tok + ch), for a token followed by a character of the next token
IncludesThenChar(s, tok, ch) ==
    \E i \in DOMAIN s : s[i] = tok /\ i < Len(s) /\ FirstChar(s[i + 1]) = ch

\* url.includes('.mp4?')
IncludesMp4Query(s) == IncludesThenChar(s, ".mp4", "?")

\* url.includes(a + b), for a literal made of the two tokens a, b
IncludesPair(s, a, b) ==
    \E i \in DOMAIN s : s[i] = a /\ i < Len(s) /\ s[i + 1] = b

\* url.startsWith(scheme)
StartsWith(s, scheme) == s # <<>> /\ s[1] = scheme

\* The number of characters of [A-Za-z0-9_-] that immediately precede token i:
\* the word tokens before it, back to the nearest other token.
RECURSIVE RunBefore(_, _)
RunBefore(s, i) ==
    IF i <= 1 \/ ~IsWord(s[i - 1]) THEN 0
    ELSE TokLen(s[i - 1]) + RunBefore(s, i - 1)

\* /[A-Za-z0-9_-]{40,}\.mp4/.test(url)
HasLongHashBeforeMp4(s) ==
    \E i \in DOMAIN s : s[i] = ".mp4" /\ RunBefore(s, i) >= 40

\* new URL(url) does not throw, for a url that starts with http:// or https://:
\* the host is present and is not the unterminated IPv6 literal.
ParsesAsUrl(s) == Len(s) >= 2 /\ s[2] # "[::"

IncludesAny(s, lits) == \E l \in lits : Includes(s, l)

----------------------------------------------------------------------------
(* The Validator *)

\* the DASH manifest and segment markers of isValidVideoUrl
isDashOrSegment(url) ==
    IncludesAny(url, {".mpd", "segment", "manifest", "init.mp4", "dash"})

\* const hasFacebookVideoIndicator of isValidVideoUrl
hasFacebookVideoIndicator(url) ==
    /\ Includes(url, "scontent") /\ Includes(url, ".fna.fbcdn.net")
    /\ (Includes(url, "/o1/v/") \/ Includes(url, "/o2/v/"))
    /\ IncludesMp4Query(url)
    /\ (Includes(url, "_nc_cat=") \/ IncludesPair(url, "&", "_nc_cat="))
    /\ HasLongHashBeforeMp4(url)

isValidVideoUrl(url) ==
    /\ url # <<>>
    /\ Length(url) >= 200
    /\ (StartsWith(url, "http://") \/ StartsWith(url, "https://"))
    /\ ParsesAsUrl(url)
    /\ Includes(url, ".mp4")
    /\ ~isDashOrSegment(url)
    /\ hasFacebookVideoIndicator(url)

----------------------------------------------------------------------------
(* The Classifier *)

\* this.qualityPatterns, in order: the alternatives of each pattern and its label
qualityPatterns ==
    << <<{"hd", "720p", "1080p", "high"}, "HD">>,
       <<{"sd", "480p", "medium"}, "SD">>,
       <<{"low", "240p", "360p"}, "Low">>,
       <<{"4k", "2160p", "ultra"}, "4K">>,
       <<{"2k", "1440p"}, "2K">> >>

detectQuality(url) ==
    LET hits == { i \in DOMAIN qualityPatterns : IncludesAny(url, qualityPatterns[i][1]) }
    IN  IF hits # {}
        THEN qualityPatterns[CHOOSE i \in hits : \A j \in hits : i <= j][2]
        ELSE IF IncludesAny(url, {"hd", "720", "1080"}) THEN "HD"
        ELSE IF IncludesAny(url, {"sd", "480"}) THEN "SD"
        ELSE "Unknown Quality"

detectType(url) ==
    IF Includes(url, ".mp4") THEN "MP4"
    ELSE IF Includes(url, ".m4v") THEN "M4V"
    ELSE IF Includes(url, ".mov") THEN "MOV"
    ELSE IF Includes(url, "dash") THEN "DASH"
    ELSE "MP4"

estimateSize(quality) ==
    CASE quality = "4K" -> "~500MB"
      [] quality = "2K" -> "~200MB"
      [] quality = "HD" -> "~100MB"
      [] quality = "SD" -> "~50MB"
      [] quality = "Low" -> "~20MB"
      [] OTHER -> "Unknown"

\* detectContentType; draws[url] is the outcome of Math.random() > 0.3 in this
\* call, read only for /m69/
detectContentType(url, draws) ==
    LET hasVideo == TRUE
        hasAudio == IF /\ IncludesAny(url, {"/m78/", "/m69/", "/m366/", "/m412/"})
                       /\ Includes(url, "/m69/")
                    THEN draws[url] ELSE TRUE
    IN  [hasVideo |-> hasVideo,
         hasAudio |-> hasAudio,
         description |-> IF hasVideo /\ hasAudio THEN "Video + Audio"
                         ELSE IF hasVideo THEN "Video Only"
                         ELSE IF hasAudio THEN "Audio Only" ELSE "Unknown"]

detectResolution(url) ==
    IF IncludesAny(url, {"1080", "hd"}) THEN "1080p"
    ELSE IF Includes(url, "720") THEN "720p"
    ELSE IF Includes(url, "480") THEN "480p"
    ELSE IF Includes(url, "360") THEN "360p"
    ELSE IF Includes(url, "/m78/") THEN "720p+"
    ELSE IF Includes(url, "/m412/") THEN "1080p+"
    ELSE IF Includes(url, "/m366/") THEN "480p"
    ELSE IF Includes(url, "/m69/") THEN "360p"
    ELSE "Auto"

createVideoObject(url, draws) ==
    LET quality == detectQuality(url)
        contentType == detectContentType(url, draws)
    IN  [url |-> url,
         quality |-> quality,
         type |-> detectType(url),
         size |-> estimateSize(quality),
         contentType |-> contentType,
         hasVideo |-> contentType.hasVideo,
         hasAudio |-> contentType.hasAudio,
         resolution |-> detectResolution(url)]

\* analyzeContentType: the regular expressions /\/m(412|540|720|1080)/, /\/m366/, /\/m78/, /\/m69/
analyzeContentType(url) ==
    IF IncludesAny(url, {"/m412", "/m540", "/m720", "/m1080"})
    THEN [hasVideo |-> TRUE, hasAudio |-> TRUE, quality |-> "high"]
    ELSE IF Includes(url, "/m366")
    THEN [hasVideo |-> TRUE, hasAudio |-> TRUE, quality |-> "standard"]
    ELSE IF Includes(url, "/m78")
    THEN [hasVideo |-> TRUE, hasAudio |-> TRUE, quality |-> "audio-optimized"]
    ELSE IF Includes(url, "/m69")
    THEN [hasVideo |-> TRUE, hasAudio |-> FALSE, quality |-> "low"]
    ELSE [hasVideo |-> TRUE, hasAudio |-> TRUE, quality |-> "unknown"]

getQualityScore(url) ==
    IF IncludesAny(url, {"/m412", "/m540", "/m720", "/m1080"}) THEN 100
    ELSE IF Includes(url, "/m366") THEN 80
    ELSE IF Includes(url, "/m78") THEN 60
    ELSE IF Includes(url, "/m69") THEN 20
    ELSE IF IncludesAny(url, {"1080", "hd"}) THEN 90
    ELSE IF Includes(url, "720") THEN 85
    ELSE IF Includes(url, "480") THEN 70
    ELSE IF Includes(url, "360") THEN 50
    ELSE 40

----------------------------------------------------------------------------
(* Sorting.  Array.prototype.sort is stable (Node 11 and later) and sorts   *)
(* in place: the elements are ordered by the comparator, equal elements     *)
(* keep their order.                                                        *)

\* Sorting a sequence of pairs <<key, element>> by key, ascending: p inserted
\* after the last pair of s whose key is <= its own (s is sorted)
RECURSIVE InsertByKey(_, _)
InsertByKey(s, p) ==
    IF s = <<>> THEN <<p>>
    ELSE IF p[1] < Head(s)[1] THEN <<p>> \o s
    ELSE <<Head(s)>> \o InsertByKey(Tail(s), p)

RECURSIVE SortByKey(_)
SortByKey(s) ==
    IF s = <<>> THEN <<>>
    ELSE InsertByKey(SortByKey(SubSeq(s, 1, Len(s) - 1)), s[Len(s)])

\* const qualityOrder of sortVideosByQuality
qualityOrder(quality) ==
    CASE quality = "4K" -> 0
      [] quality = "2K" -> 1
      [] quality = "HD" -> 2
      [] quality = "SD" -> 3
      [] quality = "Low" -> 4
      [] quality = "Unknown Quality" -> 5

\* qualityOrder[a.quality] || 5 : 0 is falsy, so the entry of '4K' reads as 5
OrderOf(video) ==
    IF qualityOrder(video.quality) = 0 THEN 5 ELSE qualityOrder(video.quality)

sortVideosByQuality(list) ==
    LET sorted == SortByKey([i \in DOMAIN list |-> <<OrderOf(list[i]), list[i]>>])
    IN  [i \in DOMAIN list |-> sorted[i][2]]

\* a sort that leaves the list as it is
KeepOrder(list) == list

\* list.sort((a, b) => getQualityScore(b.url) - getQualityScore(a.url))
SortByScore(list) ==
    LET sorted == SortByKey([i \in DOMAIN list |-> <<0 - getQualityScore(list[i].url), list[i]>>])
    IN  [i \in DOMAIN list |-> sorted[i][2]]


----------------------------------------------------------------------------
(* Pages.  The pasted source is a sequence of items, each a place where a   *)
(* piece of text T sits in the page:                                        *)
(*   form "json"   "KEY":"T" inside a <script> block of its own             *)
(*   form "bare"   T between white space                                    *)
(*   form "video"  <video KEY"T"></video>, KEY being src= or SRC=           *)
(*   form "ldjson" <script type="application/ld+json">{"KEY":"T"}</script>  *)
(* esc says that every "/" of T is written "\/" in the page (JSON escape).  *)

MinOf(S) == CHOOSE x \in S : \A y \in S : x <= y
MaxOf(S) == CHOOSE x \in S : \A y \in S : x >= y

\* cleanHtml on one token: the replacements in the order of the code, each on the
\* result of the one before.  \uXXXX -> the character (\ is the backslash),
\* then &quot; -> ", then &amp; -> &.  The replacements of \", \\, &lt; and
\* &gt; change no token of the catalog.
cleanToken(t) ==
    LET unicode(x) == CASE x = "\\u0026" -> "&"
                        [] x = "\\u005Cu0026" -> "\\u0026"
                        [] OTHER -> x
        quot(x) == IF x = "&quot;" THEN "\"" ELSE x
        amp(x) == CASE x = "&amp;" -> "&"
                    [] x = "&amp;amp;" -> "&amp;"
                    [] x = "&amp;quot;" -> "&quot;"
                    [] OTHER -> x
    IN  amp(quot(unicode(t)))

cleanText(text) == [j \in DOMAIN text |-> cleanToken(text[j])]

cleanHtml(html) == [i \in DOMAIN html |-> [html[i] EXCEPT !.text = cleanText(@)]]

\* A match of a regular expression: the text matched or captured, whether the
\* surrounding double quotes are part of it, and whether its slashes are escaped.
Raw(quoted, esc, toks) == [quoted |-> quoted, esc |-> esc, toks |-> toks]

IsTag(t) == FirstChar(t) = "<" /\ LastChar(t) = ">"

\* url.replace(/<[^>]+>/g, ''): the tags of the text removed
RECURSIVE StripTags(_)
StripTags(toks) ==
    IF toks = <<>> THEN <<>>
    ELSE IF IsTag(Head(toks)) THEN StripTags(Tail(toks))
    ELSE <<Head(toks)>> \o StripTags(Tail(toks))

\* url.replace(/\\/g, '') on one token (the escaped slashes are in raw.esc)
unescapeToken(t) == IF t = "\\u0026" THEN "u0026" ELSE t

\* The four replacements of decodeUrl that remove manifest tags:
\*   /^[^h]*<BaseURL>/gi   the start of the text through the last <BaseURL> that
\*                         no letter h precedes
\*   /<\/BaseURL>.*/gi     the first </BaseURL> and the rest of the text
\*   /><BaseURL>/gi        a ">" and the <BaseURL> that follows it
\*   /<[^>]+>/g            every tag that is left
\* (no text of the catalog has another tag directly before <BaseURL>)
StripManifestTags(toks) ==
    LET NoLetterH(t) == t \in {"<BaseURL>", "</BaseURL>", ">", "?", "&", "/"}
        DropTo(s) ==
            LET opens == { k \in DOMAIN s :
                             s[k] = "<BaseURL>" /\ \A m \in 1..(k - 1) : NoLetterH(s[m]) }
            IN  IF opens = {} THEN s ELSE SubSeq(s, MaxOf(opens) + 1, Len(s))
        CutAt(s) ==
            LET closes == { k \in DOMAIN s : s[k] = "</BaseURL>" }
            IN  IF closes = {} THEN s ELSE SubSeq(s, 1, MinOf(closes) - 1)
        RECURSIVE DropJoins(_)
        DropJoins(s) ==
            IF Len(s) < 2 THEN s
            ELSE IF s[1] = ">" /\ s[2] = "<BaseURL>" THEN DropJoins(SubSeq(s, 3, Len(s)))
            ELSE <<s[1]>> \o DropJoins(Tail(s))
    IN  StripTags(DropJoins(CutAt(DropTo(toks))))

\* decodeURIComponent on one token: %26 is "&"; %zz is not an escape and makes
\* the call throw URIError
percentDecode(t) == IF t = "%26" THEN "&" ELSE t

\* decodeURIComponent(url.replace(/\\/g, '')) inside the try of decodeUrl, and
\* the catch: url.replace(/\\/g, '') of the text the tags were removed from
DecodeText(toks) ==
    IF \E j \in DOMAIN toks : toks[j] = "%zz"
    THEN [j \in DOMAIN toks |-> unescapeToken(toks[j])]
    ELSE [j \in DOMAIN toks |-> percentDecode(unescapeToken(toks[j]))]

\* decodeUrl: the quotes at the ends removed, the tags removed, every backslash
\* removed, percent-decoded, trimmed.  The result is plain text: no quotes, no
\* escaped slashes.
decodeUrl(raw) ==
    IF raw.toks = <<>> THEN <<>> ELSE DecodeText(StripManifestTags(raw.toks))

\* decodeUrl(undefined)
NoMatchGroup == Raw(FALSE, FALSE, <<>>)

----------------------------------------------------------------------------
(* The rule table this.videoPatterns, by index 0..31 *)

NumPatterns == 32

PatternKind(index) ==
    CASE index \in (0..14) \cup {27, 28} -> "key"
      [] index \in 15..21 -> "https"
      [] index \in 22..24 -> "keymp4"
      [] index \in 25..26 -> "attr"
      [] index = 29 -> "blob"
      [] index = 30 -> "u002F"
      [] index = 31 -> "escaped"

\* the key of a rule "KEY":"([^"]+)", "KEY":\s*"([^"]*\.mp4[^"]*)" or KEY['"]([^'"]*\.mp4[^'"]*)['"]
PatternKey(index) ==
    CASE index = 0 -> "hd_src"
      [] index = 1 -> "sd_src"
      [] index = 2 -> "hd_src_no_ratelimit"
      [] index = 3 -> "sd_src_no_ratelimit"
      [] index = 4 -> "playable_url"
      [] index = 5 -> "playable_url_quality_hd"
      [] index = 6 -> "browser_native_hd_url"
      [] index = 7 -> "browser_native_sd_url"
      [] index = 8 -> "playback_url"
      [] index = 9 -> "video_url"
      [] index = 10 -> "videoUrl"
      [] index = 11 -> "videoSrc"
      [] index = 12 -> "playbackUrl"
      [] index = 13 -> "progressive"
      [] index = 14 -> "url"
      [] index = 22 -> "src"
      [] index = 23 -> "source"
      [] index = 24 -> "video"
      [] index = 25 -> "data-src="
      [] index = 26 -> "src="
      [] index = 27 -> "dash_manifest"
      [] index = 28 -> "download_url"
      [] OTHER -> ""

\* the keyword a rule https:\/\/[^"'\s]*KEYWORD[^"'\s]*\.mp4(?:\?[^"'\s]*)? asks for
\* between the scheme at p and the extension at m
KeywordBefore(index, text, p, m) ==
    LET between(kw) == \E k \in (p + 1)..(m - 1) : kw \in Lits(text[k])
    IN  CASE index = 15 -> TRUE
          [] index = 16 -> between("video")
          [] index = 17 -> between("scontent")
          [] index = 18 -> between("fbcdn")
          [] index = 19 -> between("cdninstagram")
          [] index = 20 -> p + 1 < m /\ text[p + 1] = "video" /\ between(".facebook.com")
          [] index = 21 -> between(".fbcdn.net")

\* the matches of an https rule in a text without quotes or white space, from
\* position `from` on: leftmost start, greedy to the last .mp4 the keyword
\* precedes, then the query when a "?" follows; the scan resumes after the match
RECURSIVE HttpsMatches(_, _, _)
HttpsMatches(index, text, from) ==
    LET ends(p) == { m \in (p + 1)..Len(text) :
                        text[m] = ".mp4" /\ KeywordBefore(index, text, p, m) }
        starts == { p \in from..Len(text) : text[p] = "https://" /\ ends(p) # {} }
    IN  IF starts = {} THEN <<>>
        ELSE LET p == MinOf(starts)
                 m == MaxOf(ends(p))
                 e == IF m < Len(text) /\ FirstChar(text[m + 1]) = "?"
                      THEN Len(text) ELSE m
             IN  <<SubSeq(text, p, e)>> \o HttpsMatches(index, text, e + 1)

IsScheme(t) == t \in {"https://", "http://", "ftp://"}

\* the text of a double-quoted string of the page matches [^"]*\\\/\\\/[^"]*\.mp4[^"]*
EscapedSlashesThenMp4(item) ==
    /\ item.esc
    /\ \E i \in DOMAIN item.text : \E j \in DOMAIN item.text :
          i < j /\ IsScheme(item.text[i]) /\ Includes(<<item.text[j]>>, ".mp4")

\* whether the text of the item stands between double quotes in the page
Quoted(item) == item.form \in {"json", "video", "ldjson"}

\* The matches of rule `index` inside one item of the cleaned page, in order:
\* what decodeUrl is given (match[1], or match[0] when the rule has no group).
PatternMatches(index, item) ==
    LET kind == PatternKind(index)
        T == item.text
    IN  CASE kind = "key" ->
               IF item.form = "json" /\ item.key = PatternKey(index) /\ T # <<>>
               THEN <<Raw(FALSE, item.esc, T)>> ELSE <<>>
          [] kind = "keymp4" ->
               IF item.form = "json" /\ item.key = PatternKey(index) /\ Includes(T, ".mp4")
               THEN <<Raw(FALSE, item.esc, T)>> ELSE <<>>
          [] kind = "attr" ->
               IF item.form = "video" /\ item.key = PatternKey(index) /\ Includes(T, ".mp4")
               THEN <<Raw(FALSE, item.esc, T)>> ELSE <<>>
          [] kind = "https" ->
               IF item.esc THEN <<>>
               ELSE LET ms == HttpsMatches(index, T, 1)
                    IN  [k \in DOMAIN ms |-> Raw(FALSE, FALSE, ms[k])]
          [] kind = "blob" ->
               IF ~item.esc /\ Len(T) >= 2 /\ T[1] = "blob:" /\ T[2] \in {"https://", "http://"}
               THEN <<Raw(FALSE, FALSE, T)>> ELSE <<>>
          [] kind = "u002F" -> <<>>   \* no token of a cleaned page holds the text \u002F
          [] kind = "escaped" ->
               IF Quoted(item) /\ EscapedSlashesThenMp4(item)
               THEN <<Raw(TRUE, TRUE, T)>> ELSE <<>>

\* whether the rule has a capture group (match[1])
HasGroup(index) == PatternKind(index) \in {"key", "keymp4", "attr"}


----------------------------------------------------------------------------
(* extractVideos *)

\* the accumulators of one call: videos, foundUrls, and for the url of each
\* pushed video << the stage that pushed it, the rule index, its position >>
Acc(v, f, o) == [videos |-> v, foundUrls |-> f, origin |-> o]

NoOrigin == [u \in {} |-> <<>>]

\* a push that does not consult foundUrls
AddAlways(acc, video, stage, index) ==
    Acc(Append(acc.videos, video), acc.foundUrls \cup {video.url},
        acc.origin @@ (video.url :> <<stage, index, Len(acc.videos) + 1>>))

\* if (!foundUrls.has(url)) { foundUrls.add(url); videos.push(video) }
AddIfNew(acc, video, stage, index) ==
    IF video.url \in acc.foundUrls THEN acc
    ELSE Acc(Append(acc.videos, video), acc.foundUrls \cup {video.url},
             acc.origin @@ (video.url :> <<stage, index, Len(acc.videos) + 1>>))

\* a scan in which every rule is permissive
ProcessUrlPermissive(acc, index, url, draws) ==
    IF url = <<>> \/ Length(url) < 20 THEN acc
    ELSE IF IncludesAny(url, {"<", ">", "BaseURL", "SegmentBase", "indexRange"}) THEN acc
    ELSE IF ~StartsWith(url, "http://") /\ ~StartsWith(url, "https://") THEN acc
    ELSE IF Includes(url, "scontent") /\ Includes(url, ".mp4")
         THEN AddIfNew(acc, createVideoObject(url, draws), "patterns", index)
    ELSE acc

\* the checks of the while loop of the pattern scan on a decoded url
ProcessUrl(acc, index, url, draws) ==
    IF url = <<>> \/ Length(url) < 20 THEN acc
    ELSE IF IncludesAny(url, {"<", ">", "BaseURL", "SegmentBase", "indexRange"}) THEN acc
    ELSE IF ~StartsWith(url, "http://") /\ ~StartsWith(url, "https://") THEN acc
    ELSE IF (index = 31 /\ Includes(url, "scontent") /\ Includes(url, ".mp4"))
            \/ isValidVideoUrl(url)
         THEN AddIfNew(acc, createVideoObject(url, draws), "patterns", index)
    ELSE acc

\* the body of the while loop of the pattern scan, for one match
ProcessMatch(acc, index, raw, draws) == ProcessUrl(acc, index, decodeUrl(raw), draws)

\* the matches of a rule in the whole page, in page order
RECURSIVE MatchesInPage(_, _)
MatchesInPage(index, html) ==
    IF html = <<>> THEN <<>>
    ELSE PatternMatches(index, Head(html)) \o MatchesInPage(index, Tail(html))

RECURSIVE ProcessMatches(_, _, _, _)
ProcessMatches(acc, index, raws, draws) ==
    IF Len(acc.videos) >= 0 /\ raws = <<>> THEN acc   \* acc is computed on entry
    ELSE ProcessMatches(ProcessMatch(acc, index, Head(raws), draws), index, Tail(raws), draws)

\* this.videoPatterns.forEach((pattern, index) => ...), from rule `index` on
RECURSIVE ScanPatterns(_, _, _, _)
ScanPatterns(acc, index, html, draws) ==
    IF Len(acc.videos) >= 0 /\ index >= NumPatterns THEN acc
    ELSE ScanPatterns(ProcessMatches(acc, index, MatchesInPage(index, html), draws),
                      index + 1, html, draws)

\* const fallbackPatterns of fallbackVideoSearch, by index 0..5
NumFallbackPatterns == 6

\* the end of the run of [^\s"'<>] characters that starts at p
RunEnd(text, p) ==
    LET stops == { k \in p..Len(text) : IncludesAny(<<text[k]>>, {"<", ">"}) }
    IN  IF stops = {} THEN Len(text) ELSE MinOf(stops) - 1

FallbackKeyword(j, text, p) ==
    LET e == RunEnd(text, p)
        before(kw) == \E k \in (p + 1)..e : \E m \in (k + 1)..e :
                          kw \in Lits(text[k]) /\ text[m] = ".mp4"
    IN  CASE j = 0 -> \E m \in (p + 1)..e : text[m] = ".mp4"
          [] j = 1 -> before("video")
          [] j = 2 -> before("scontent")
          [] j = 3 -> before("fbcdn")

\* the matches of https?:\/\/[^\s"'<>]*KEYWORD[^\s"'<>]*\.mp4[^\s"'<>]* from `from` on
RECURSIVE FallbackRuns(_, _, _)
FallbackRuns(j, text, from) ==
    LET starts == { p \in from..Len(text) :
                      text[p] \in {"https://", "http://"} /\ FallbackKeyword(j, text, p) }
    IN  IF starts = {} THEN <<>>
        ELSE LET p == MinOf(starts)
             IN  <<SubSeq(text, p, RunEnd(text, p))>> \o FallbackRuns(j, text, RunEnd(text, p) + 1)

\* match[1] || match[0] of fallback rule j inside one item, in order
FallbackMatches(j, item) ==
    LET T == item.text
    IN  CASE j \in 0..3 ->
               IF item.esc THEN <<>>
               ELSE LET ms == FallbackRuns(j, T, 1)
                    IN  [k \in DOMAIN ms |-> Raw(FALSE, FALSE, ms[k])]
          [] j = 4 ->
               \* "(https?:\/\/[^"]*\.mp4[^"]*)"
               IF /\ Quoted(item) /\ ~item.esc /\ T # <<>>
                  /\ T[1] \in {"https://", "http://"} /\ Includes(T, ".mp4")
               THEN <<Raw(FALSE, FALSE, T)>> ELSE <<>>
          [] j = 5 -> <<>>   \* '(https?:\/\/[^']*\.mp4[^']*)': no item is single-quoted

\* a fallback scan that pushes what it matches without the validator
FallbackUrlUnchecked(acc, j, url, draws) ==
    IF url # <<>>
    THEN AddIfNew(acc, createVideoObject(url, draws), "fallback", j)
    ELSE acc

\* the body of the while loop of fallbackVideoSearch, for one match
FallbackUrl(acc, j, url, draws) ==
    IF isValidVideoUrl(url)
    THEN AddIfNew(acc, createVideoObject(url, draws), "fallback", j)
    ELSE acc

FallbackMatch(acc, j, raw, draws) == FallbackUrl(acc, j, decodeUrl(raw), draws)

RECURSIVE FallbackProcess(_, _, _, _)
FallbackProcess(acc, j, raws, draws) ==
    IF Len(acc.videos) >= 0 /\ raws = <<>> THEN acc
    ELSE FallbackProcess(FallbackMatch(acc, j, Head(raws), draws), j, Tail(raws), draws)

RECURSIVE FallbackInPage(_, _, _, _)
FallbackInPage(acc, j, html, draws) ==
    IF Len(acc.videos) >= 0 /\ html = <<>> THEN acc
    ELSE FallbackInPage(FallbackProcess(acc, j, FallbackMatches(j, Head(html)), draws),
                        j, Tail(html), draws)

RECURSIVE fallbackVideoSearch(_, _, _, _)
fallbackVideoSearch(acc, j, html, draws) ==
    IF Len(acc.videos) >= 0 /\ j >= NumFallbackPatterns THEN acc
    ELSE fallbackVideoSearch(FallbackInPage(acc, j, html, draws), j + 1, html, draws)

\* content.includes('video') for the content of the <script> block of an item
ScriptMentionsVideo(item) ==
    /\ item.form \in {"json", "ldjson"}
    /\ \/ item.key \in {"video_url", "videoUrl", "videoSrc", "video"}
       \/ Includes(item.text, "video")

\* the urls the script walker of extractWithCheerio validates in one block:
\* decodeUrl(match[1]) for every match of every rule, in rule order
RECURSIVE ScriptUrls(_, _)
ScriptUrls(index, item) ==
    IF index >= NumPatterns THEN <<>>
    ELSE LET ms == PatternMatches(index, item)
         IN  [k \in DOMAIN ms |-> decodeUrl(IF HasGroup(index) THEN ms[k] ELSE NoMatchGroup)]
             \o ScriptUrls(index + 1, item)

\* the urls extractWithCheerio validates, in the order it pushes them:
\* the src of the video elements, then the script blocks that mention video
RECURSIVE VideoElementUrls(_)
VideoElementUrls(html) ==
    IF html = <<>> THEN <<>>
    ELSE (IF Head(html).form = "video" /\ ~Head(html).esc /\ Head(html).text # <<>>
          THEN <<Head(html).text>> ELSE <<>>) \o VideoElementUrls(Tail(html))

RECURSIVE ScriptBlockUrls(_)
ScriptBlockUrls(html) ==
    IF html = <<>> THEN <<>>
    ELSE (IF ScriptMentionsVideo(Head(html)) THEN ScriptUrls(0, Head(html)) ELSE <<>>)
         \o ScriptBlockUrls(Tail(html))

\* the videos a walker returns: createVideoObject of each url that isValidVideoUrl accepts
RECURSIVE ValidVideos(_, _)
ValidVideos(urls, draws) ==
    IF urls = <<>> THEN <<>>
    ELSE (IF isValidVideoUrl(Head(urls))
          THEN <<createVideoObject(Head(urls), draws)>> ELSE <<>>)
         \o ValidVideos(Tail(urls), draws)

extractWithCheerio(html, draws) ==
    ValidVideos(VideoElementUrls(html) \o ScriptBlockUrls(html), draws)

\* the strings findVideoUrlsInObject collects from the JSON-LD blocks: JSON.parse
\* unescapes the slashes
RECURSIVE StructuredUrls(_)
StructuredUrls(html) ==
    IF html = <<>> THEN <<>>
    ELSE (IF Head(html).form = "ldjson" /\ isValidVideoUrl(Head(html).text)
          THEN <<Head(html).text>> ELSE <<>>) \o StructuredUrls(Tail(html))

extractFromStructuredData(html, draws) == ValidVideos(StructuredUrls(html), draws)

\* walkerVideos.forEach(video => { if (!foundUrls.has(video.url)) ... })
RECURSIVE MergeVideos(_, _, _)
MergeVideos(acc, list, stage) ==
    IF Len(acc.videos) >= 0 /\ list = <<>> THEN acc
    ELSE MergeVideos(AddIfNew(acc, Head(list), stage, -1), Tail(list), stage)

----------------------------------------------------------------------------
(* The pages.  A page is the sequence of the places of the document where a
   url can be found; the markup around them (the <html element, the scripts'
   own code, over a thousand characters of it) holds no url.  Every page of
   the catalog is a request the route accepts. *)

Cdn(scheme, format, hash) ==
    <<scheme, "scontent", ".fna.fbcdn.net", "/o1/v/t2/f2", format, hash, ".mp4">>

Signed(amp) ==
    <<"?", "_nc_cat=", "~v", amp, "efg=", "~v", amp, "_nc_ht=", "~v", amp, "oh=", "~v">>

Pad(amp, sig) == <<amp, "ccb=", sig>>

\* a complete signed CDN url, 388 characters with "&" (387 for /m69/)
FullUrl(scheme, format, hash, amp) ==
    Cdn(scheme, format, hash) \o Signed(amp) \o Pad(amp, "~sig250")

\* the same with a quality word in the query
WithQuality(url, amp, word) == url \o <<amp, "q=", word>>

\* a CDN url of 107 characters: too short for isValidVideoUrl
ShortUrl == Cdn("https://", "/m412/", "~B1") \o <<"?", "_nc_cat=", "~v">>

\* a CDN url of 232 characters whose query has _nc_cat= and neither _nc_ht= nor oh=
CatOnlyUrl ==
    Cdn("https://", "/m366/", "~B1") \o <<"?", "_nc_cat=", "~v">> \o Pad("&", "~sig120")

\* a url of another site
OtherUrl ==
    <<"https://", "media", ".example.com", "/videos", "/", "~D1", ".mp4", "?", "q=", "hd">>

\* the i-th url of a page that lists many videos, 258 characters
ListingUrl(i, amp) ==
    Cdn("https://", "/m412/", ListingHash(i)) \o Signed(amp) \o Pad(amp, "~sig120")

Json(key, esc, text) == [form |-> "json", key |-> key, esc |-> esc, text |-> text]
Bare(text) == [form |-> "bare", key |-> "", esc |-> FALSE, text |-> text]
VideoTag(key, text) == [form |-> "video", key |-> key, esc |-> FALSE, text |-> text]
LdJson(esc, text) == [form |-> "ldjson", key |-> "contentUrl", esc |-> esc, text |-> text]

Items ==
    { Json("playable_url", TRUE, FullUrl("https://", "/m412/", "~A1", "\\u0026")),
      Json("playable_url", TRUE, FullUrl("https://", "/m69/", "~A2", "\\u0026")),
      Json("hd_src", FALSE,
           WithQuality(FullUrl("https://", "/m69/", "~B1", "&"), "&", "hd")),
      Json("sd_src", FALSE, CatOnlyUrl),
      Json("browser_native_sd_url", TRUE, ShortUrl),
      Json("video_url", TRUE, FullUrl("https://", "/m412/", "~A1", "\\u0026")),
      Json("playable_url_quality_hd", FALSE,
           WithQuality(FullUrl("https://", "/m366/", "~B1", "&"), "&", "4k")),
      Bare(FullUrl("http://", "/m412/", "~B1", "&")),
      Bare(OtherUrl),
      VideoTag("src=", FullUrl("https://", "/m78/", "~A2", "&amp;")),
      VideoTag("SRC=", FullUrl("http://", "/m540/", "~B1", "&amp;")),
      LdJson(TRUE, FullUrl("http://", "/m412/", "~A1", "&")),
      LdJson(FALSE, FullUrl("http://", "/m366/", "~A2", "&")) }

\* items with the markers of stream pieces, manifest tags and nested escapes
MoreItems ==
    { Json("playable_url", FALSE,
           WithQuality(FullUrl("https://", "/m412/", "~A2", "&"), "&", "chunk")),
      Json("playable_url", FALSE,
           WithQuality(FullUrl("https://", "/m412/", "~A2", "&"), "&", "dash")),
      Bare(WithQuality(FullUrl("https://", "/m540/", "~A1", "&"), "&", "indexRange")),
      VideoTag("src=",
               WithQuality(FullUrl("https://", "/m540/", "~A2", "&amp;"), "&amp;", "indexRange")),
      LdJson(FALSE, WithQuality(FullUrl("https://", "/m540/", "~B1", "&"), "&", "indexRange")),
      Bare(<<"<BaseURL>">> \o FullUrl("https://", "/m78/", "~B1", "&") \o <<"</BaseURL>">>),
      Json("dash_manifest", FALSE,
           <<"<BaseURL>">> \o FullUrl("http://", "/m78/", "~A1", "&amp;") \o <<"</BaseURL>">>),
      Json("playable_url", TRUE, FullUrl("https://", "/m366/", "~B1", "\\u005Cu0026")),
      VideoTag("src=", FullUrl("https://", "/m366/", "~A1", "&amp;amp;")),
      Json("playable_url", FALSE,
           WithQuality(FullUrl("https://", "/m366/", "~A2", "&"), "&", "&amp;quot;")),
      Json("playable_url", FALSE,
           WithQuality(FullUrl("https://", "/m540/", "~A2", "&"), "&", "%zz")),
      Json("playable_url", FALSE, FullUrl("https://", "/m540/", "~B1", "%26")) }

\* a page that lists n videos
ListingPage(n) == [i \in 1..n |-> Json("playable_url", TRUE, ListingUrl(i, "\\u0026"))]

SeqsUpTo(S, n) == UNION { [1..k -> S] : k \in 0..n }

\* the pages of at most MaxItems places, the pages of one place of MoreItems,
\* alone or after a video the primary scan finds, and the listings around the cap
Pages ==
    SeqsUpTo(Items, MaxItems) \cup { <<item>> : item \in MoreItems }
        \cup { <<Bare(FullUrl("https://", "/m412/", "~A1", "&")), item>> : item \in MoreItems }
        \cup { ListingPage(n) : n \in (MaxListing - 2)..MaxListing }

\* the urls for which createVideoObject calls Math.random()
M69Urls(html) ==
    { html[i].text : i \in { k \in DOMAIN html : Includes(html[k].text, "/m69/") } }

Draws(html) == [M69Urls(html) -> BOOLEAN]

----------------------------------------------------------------------------
(* POST /extract-videos and the call of extractor.extractVideos it makes.
   pc is the position of the request in flight:
   "idle" -> "extract" -> ("fallback" ->) "cheerio" -> "structured" -> "sort"
   -> "respond" -> "idle" *)

----------------------------------------------------------------------------
(* The requests of POST /extract-videos *)

\* express.json({ limit: '50mb' }), in bytes
ParserLimit == 50 * 1024 * 1024

\* the limit of the route on sourceCode.length
MaxSourceLength == 50 * 1024 * 1024

\* the bytes of the JSON text {"sourceCode":""} around the text of the page
JsonOverhead == 17

\* points of the rate limiter: requests of one client in one window
RatePoints == 10

Body(type, length, markup) == [type |-> type, length |-> length, markup |-> markup]

\* the body of a request that carries a page of the catalog
PageBody == Body("string", 5000, "<html")

\* bodies without sourceCode, with a sourceCode that is no string or is empty,
\* and strings of the lengths around the limits, with and without the markup
\* the route looks for
OtherBodies ==
    { Body("undefined", 0, "none"), Body("number", 0, "none"), Body("string", 0, "none") }
      \cup { Body("string", n, m) :
               n \in {999, 1000, ParserLimit - JsonOverhead, ParserLimit - JsonOverhead + 1,
                      MaxSourceLength, MaxSourceLength + 1},
               m \in {"<html", "<!DOCTYPE", "none"} }

\* the pages such a body can hold
BodyPages(b) ==
    IF b.type = "string" /\ b.length > 0
    THEN { <<>>, <<Json("playable_url", TRUE, FullUrl("https://", "/m412/", "~A1", "\\u0026"))>> }
    ELSE { <<>> }

\* the bytes of the request body: every character of sourceCode takes at least one
BodyBytes(b) == IF b.type = "string" THEN JsonOverhead + b.length ELSE JsonOverhead

\* a validation that does not look at the length
validationErrorAnyLength(b) ==
    IF b.type # "string" \/ b.length = 0 THEN "required"
    ELSE IF b.markup = "none" THEN "not html"
    ELSE ""

\* the validations of the route: the error it answers with, "" when there is none
validationError(b) ==
    IF b.type # "string" \/ b.length = 0 THEN "required"
    ELSE IF b.length < 1000 THEN "too short"
    ELSE IF b.length > MaxSourceLength THEN "too large"
    ELSE IF b.markup = "none" THEN "not html"
    ELSE ""

\* res.status(status).json({ error }): the fields of a success are absent
ErrorResponse(status, error) ==
    [status |-> status, success |-> FALSE, videos |-> <<>>, count |-> 0,
     message |-> error, totalFound |-> 0, filteredCount |-> 0]

\* what errorText holds: the kind of the message and, for the message of a
\* request, the number of the request
ErrorText(kind, request) == [kind |-> kind, request |-> request]

NoText == ErrorText("", 0)

\* the page as the browser loads it: nothing typed, nothing shown, no request
PageLoaded ==
    /\ textarea = ""
    /\ extractBtn = [disabled |-> FALSE, spinner |-> "none"]
    /\ inFlight = {}
    /\ submitted = 0
    /\ results = [display |-> "none", of |-> 0]
    /\ errorMessage = [display |-> "none", text |-> NoText, since |-> 0]
    /\ timers = {}
    /\ now = 0

Init ==
    /\ PageLoaded
    /\ limited = <<>>
    /\ lastIndex = [index \in 0..(NumPatterns - 1) |-> 0]
    /\ \/ body = PageBody /\ sourceCode \in Pages
       \/ body \in OtherBodies /\ sourceCode \in BodyPages(body)
    /\ consumed \in {0, RatePoints - 1}
    /\ fetched = {}
    /\ pc = "idle"
    /\ cleaned = <<>>
    /\ videos = <<>>
    /\ foundUrls = {}
    /\ origin = NoOrigin
    /\ stages = <<>>
    /\ returned = <<>>
    /\ responses = <<>>
    /\ cands = <<>>
    /\ mainVideos = <<>>
    /\ contextual = <<>>

\* an extractor that keeps its seen-url set between the calls
CarriedCall == Acc(<<>>, foundUrls, origin)

\* const videos = []; const foundUrls = new Set(): what a call starts with
EmptyCall == Acc(<<>>, {}, NoOrigin)

\* POST /extract-videos up to the call of extractVideos: express.json reads the
\* body and hands a body over its limit to the error middleware, the rate
\* limiter counts the request or refuses it, the route validates sourceCode;
\* extractVideos starts with const videos = []; const foundUrls = new Set()
Request ==
    /\ pc = "idle"
    /\ Len(responses) < MaxCalls
    /\ IF BodyBytes(body) > ParserLimit
       THEN /\ responses' = Append(responses, ErrorResponse(500, "internal"))
            /\ UNCHANGED <<consumed, pc, cleaned, videos, foundUrls, origin, stages>>
       ELSE IF consumed >= RatePoints
       THEN /\ responses' = Append(responses, ErrorResponse(429, "too many requests"))
            /\ UNCHANGED <<consumed, pc, cleaned, videos, foundUrls, origin, stages>>
       ELSE IF validationError(body) # ""
       THEN /\ responses' = Append(responses, ErrorResponse(400, validationError(body)))
            /\ consumed' = consumed + 1
            /\ UNCHANGED <<pc, cleaned, videos, foundUrls, origin, stages>>
       ELSE /\ consumed' = consumed + 1
            /\ pc' = "extract"
            /\ cleaned' = <<>>
            /\ videos' = EmptyCall.videos
            /\ foundUrls' = EmptyCall.foundUrls
            /\ origin' = EmptyCall.origin
            /\ stages' = <<>>
            /\ UNCHANGED responses
    /\ UNCHANGED <<front, limited, lastIndex, body, fetched, sourceCode, returned, cands, mainVideos, contextual>>

\* the window of the rate limiter ends: the points of the client are forgotten
WindowExpires ==
    /\ pc = "idle"
    /\ consumed > 0
    /\ consumed' = 0
    /\ UNCHANGED <<front, limited, lastIndex, body, fetched, sourceCode, pc, cleaned, videos, foundUrls, origin, stages,
                   returned, responses, cands, mainVideos, contextual>>

\* an extractor that runs the fallback scan whatever the rules found
AlwaysFallback(found) == "fallback"

\* if (videos.length === 0) after the rules: the stage that follows them
AfterPatterns(found) == IF Len(found) = 0 THEN "fallback" ELSE "cheerio"

\* cleanHtml and the scan of the 32 rules
ScanVideoPatterns ==
    /\ pc = "extract"
    /\ cleaned' = cleanHtml(sourceCode)
    /\ \E draws \in Draws(cleaned') :
          \E acc \in {ScanPatterns(Acc(videos, foundUrls, origin), 0, cleaned', draws)} :
              /\ videos' = acc.videos
              /\ foundUrls' = acc.foundUrls
              /\ origin' = acc.origin
              /\ pc' = AfterPatterns(acc.videos)
    /\ stages' = Append(stages, "patterns")
    /\ UNCHANGED <<front, limited, lastIndex, body, consumed, fetched, sourceCode, returned, responses, cands, mainVideos, contextual>>

\* if (videos.length === 0) this.fallbackVideoSearch(cleanHtml, foundUrls, videos)
FallbackSearch ==
    /\ pc = "fallback"
    /\ \E draws \in Draws(cleaned) :
          \E acc \in {fallbackVideoSearch(Acc(videos, foundUrls, origin), 0, cleaned, draws)} :
              /\ videos' = acc.videos
              /\ foundUrls' = acc.foundUrls
              /\ origin' = acc.origin
    /\ pc' = "cheerio"
    /\ stages' = Append(stages, "fallback")
    /\ UNCHANGED <<front, limited, lastIndex, body, consumed, fetched, sourceCode, cleaned, returned, responses, cands, mainVideos, contextual>>

\* the videos of extractWithCheerio, merged
CheerioMerge ==
    /\ pc = "cheerio"
    /\ \E draws \in Draws(cleaned) :
          \E acc \in {MergeVideos(Acc(videos, foundUrls, origin),
                                   extractWithCheerio(cleaned, draws), "cheerio")} :
              /\ videos' = acc.videos
              /\ foundUrls' = acc.foundUrls
              /\ origin' = acc.origin
    /\ pc' = "structured"
    /\ stages' = Append(stages, "cheerio")
    /\ UNCHANGED <<front, limited, lastIndex, body, consumed, fetched, sourceCode, cleaned, returned, responses, cands, mainVideos, contextual>>

\* the videos of extractFromStructuredData, merged
StructuredMerge ==
    /\ pc = "structured"
    /\ \E draws \in Draws(cleaned) :
          \E acc \in {MergeVideos(Acc(videos, foundUrls, origin),
                                   extractFromStructuredData(cleaned, draws), "structured")} :
              /\ videos' = acc.videos
              /\ foundUrls' = acc.foundUrls
              /\ origin' = acc.origin
    /\ pc' = "sort"
    /\ stages' = Append(stages, "structured")
    /\ UNCHANGED <<front, limited, lastIndex, body, consumed, fetched, sourceCode, cleaned, returned, responses, cands, mainVideos, contextual>>

\* return this.sortVideosByQuality(videos): sorted in place and returned
ReturnSorted ==
    /\ pc = "sort"
    /\ videos' = sortVideosByQuality(videos)
    /\ returned' = Append(returned, videos')
    /\ pc' = "respond"
    /\ UNCHANGED <<front, limited, lastIndex, body, consumed, fetched, sourceCode, cleaned, foundUrls, origin, stages, responses,
                   cands, mainVideos, contextual>>

\* the filter of the route on the urls of the returned videos
isFacebookVideo(url) == IncludesAny(url, {"facebook.com", "fbcdn.net", "scontent", "fbvideo"})

hasFacebookStructure(url) ==
    /\ Includes(url, "?")
    /\ \/ IncludesAny(url, {"dlid=", "format=", "quality=", "v/", "/v/", "/videos/"})
       \/ IncludesThenChar(url, "/videos", "/")

facebookVideos(list) ==
    SelectSeq(list, LAMBDA video : isFacebookVideo(video.url) \/ hasFacebookStructure(video.url))

\* the urls of the second scan of the route, over the request body as sent:
\* (?:"|')(https?:\/\/[^"']*scontent[^"']*\.mp4[^"']*)(?:"|'), decoded, valid,
\* in the order of a Set
RECURSIVE additionalUrls(_, _)
additionalUrls(html, seen) ==
    IF html = <<>> THEN <<>>
    ELSE LET item == Head(html)
             T == item.text
             hit == /\ Quoted(item) /\ ~item.esc /\ T # <<>>
                    /\ T[1] \in {"https://", "http://"}
                    /\ \E k \in DOMAIN T : \E m \in DOMAIN T :
                          k < m /\ "scontent" \in Lits(T[k]) /\ T[m] = ".mp4"
             url == decodeUrl(Raw(FALSE, FALSE, T))
         IN  IF hit /\ isValidVideoUrl(url) /\ url \notin seen
             THEN <<url>> \o additionalUrls(Tail(html), seen \cup {url})
             ELSE additionalUrls(Tail(html), seen)

Response(list, total, message) ==
    [status |-> 200, success |-> TRUE, videos |-> list, count |-> Len(list),
     message |-> message, totalFound |-> total, filteredCount |-> Len(list)]

\* a route that answers an empty result with an error
RouteResponseNotFound(list, fb, more, draws) ==
    IF Len(fb) > 0 THEN Response(fb, Len(list), "extracted")
    ELSE IF Len(more) > 0
         THEN Response([k \in DOMAIN more |-> createVideoObject(more[k], draws)],
                       Len(list), "specific")
    ELSE ErrorResponse(404, "none")

\* the json the route answers with, from the videos extractVideos returned,
\* the filtered videos and the urls of the second scan
RouteResponse(list, fb, more, draws) ==
    IF Len(fb) > 0 THEN Response(fb, Len(list), "extracted")
    ELSE IF Len(more) > 0
         THEN Response([k \in DOMAIN more |-> createVideoObject(more[k], draws)],
                       Len(list), "specific")
    ELSE Response(<<>>, Len(list), "none")

\* the rest of the handler after extractVideos has returned
Respond ==
    /\ pc = "respond"
    /\ \E draws \in Draws(sourceCode) :
          responses' = Append(responses,
              RouteResponse(videos, facebookVideos(videos), additionalUrls(sourceCode, {}), draws))
    /\ pc' = "idle"
    /\ UNCHANGED <<front, limited, lastIndex, body, consumed, fetched, sourceCode, cleaned, videos, foundUrls, origin, stages, returned,
                   cands, mainVideos, contextual>>

Next ==
    \/ Request
    \/ WindowExpires
    \/ ScanVideoPatterns
    \/ FallbackSearch
    \/ CheerioMerge
    \/ StructuredMerge
    \/ ReturnSorted
    \/ Respond

Spec == Init /\ [][Next]_vars

----------------------------------------------------------------------------
(* The grouping and contextual filters *)

\* a test that knows the format /m412/ only
isTopFormatVideo(url) == Includes(url, "/m412/")

isHighQualityVideo(url) == IncludesAny(url, {"/m412/", "/m540/", "/m366/"})

isMainContentVideo(url) ==
    /\ IncludesAny(url, {"/m412/", "/m540/", "/m366/"})
    /\ (Includes(url, "_nc_cat=") \/ IncludesPair(url, "&", "_nc_cat="))
    /\ (Includes(url, "efg=") \/ IncludesPair(url, "&", "efg="))
    /\ IncludesAny(url, {"oh=", "_nc_ohc="})
    /\ (Includes(url, "_nc_ht=") \/ IncludesPair(url, "&", "_nc_ht="))
    /\ Length(url) > 350
    /\ HasLongHashBeforeMp4(url)
    /\ ~IncludesAny(url, {"preview", "thumb", "dash", "segment", "manifest", "init.mp4"})

\* the first 30 characters of a name.  ~A1 and ~A2 are the names of two
\* encodings of one video and agree on their first 30 characters; every other
\* long name differs from the others within its first 20 characters.
First30(t) == IF t \in {"~A1", "~A2"} THEN "~A" ELSE t

First20(t) == IF TokLen(t) <= 20 THEN t ELSE "20:" \o First30(t)

\* the positions of the matches of \/([A-Za-z0-9_-]{n,})\. : a name of at least
\* n characters between a "/" and a "."
SlashRuns(url, n) ==
    { i \in 2..(Len(url) - 1) :
        /\ IsWord(url[i]) /\ TokLen(url[i]) >= n
        /\ LastChar(url[i - 1]) = "/" /\ FirstChar(url[i + 1]) = "." }

\* the text after the last "/" of a token that has one
AfterSlash(t) ==
    CASE t = "/o1/v/t2/f2" -> "f2"
      [] t = "/videos" -> "videos"
      [] OTHER -> ""

HasSlash(t) == FirstChar(t) = "/" \/ LastChar(t) = "/"

\* the capture of \/f2\/([A-Za-z0-9_-]+) at a token that ends with /f2
SegmentAfter(url, i) ==
    LET next == url[i + 1]
    IN  CASE next \in {"/m412/", "/m540/", "/m366/", "/m78/", "/m69/"} ->
               (CASE next = "/m412/" -> "m412" [] next = "/m540/" -> "m540"
                  [] next = "/m366/" -> "m366" [] next = "/m78/" -> "m78"
                  [] next = "/m69/" -> "m69")
          [] next = "/videos" -> "videos"
          [] next = "/" /\ i + 2 <= Len(url) /\ IsWord(url[i + 2]) -> url[i + 2]
          [] OTHER -> ""

\* url.split('/').pop().split('?')[0].split('.')[0].substring(0, 20)
FileName(url) ==
    LET slashed == { i \in DOMAIN url : HasSlash(url[i]) }
        last == IF slashed = {} THEN 0 ELSE MaxOf(slashed)
        head == IF last = 0 THEN "" ELSE AfterSlash(url[last])
    IN  IF head # "" THEN head
        ELSE IF last < Len(url) /\ IsWord(url[last + 1]) THEN First20(url[last + 1])
        ELSE ""

extractBaseVideoId(url) ==
    LET hashes == SlashRuns(url, 40)
        f2 == { i \in 1..(Len(url) - 1) : url[i] = "/o1/v/t2/f2" /\ SegmentAfter(url, i) # "" }
    IN  IF hashes # {} THEN First30(url[MinOf(hashes)])
        ELSE IF f2 # {} THEN SegmentAfter(url, MinOf(f2))
        ELSE FileName(url)

isMainVideoGroup(group) ==
    /\ Len(group) >= 1
    /\ \E i \in DOMAIN group : IncludesAny(group[i].url, {"/m412/", "/m540/", "/m366/"})

\* a selection that keeps every member of the group
selectWholeGroup(group) == group

\* selectBestVideoFromGroup; the result is a list, empty for null
selectBestVideoFromGroup(group) ==
    LET validVideos ==
            SelectSeq(group, LAMBDA video :
                /\ analyzeContentType(video.url).hasVideo
                /\ analyzeContentType(video.url).hasAudio
                /\ analyzeContentType(video.url).quality # "low")
    IN  IF Len(validVideos) = 0 THEN <<>> ELSE <<SortByScore(validVideos)[1]>>

\* the keys of videoMap, in insertion order
RECURSIVE BaseIds(_, _)
BaseIds(list, seen) ==
    IF list = <<>> THEN <<>>
    ELSE LET baseId == extractBaseVideoId(Head(list).url)
         IN  IF baseId \in seen THEN BaseIds(Tail(list), seen)
             ELSE <<baseId>> \o BaseIds(Tail(list), seen \cup {baseId})

GroupOf(list, baseId) == SelectSeq(list, LAMBDA video : extractBaseVideoId(video.url) = baseId)

RECURSIVE MainOfGroups(_, _)
MainOfGroups(list, ids) ==
    IF ids = <<>> THEN <<>>
    ELSE (IF isMainVideoGroup(GroupOf(list, Head(ids)))
          THEN selectBestVideoFromGroup(GroupOf(list, Head(ids))) ELSE <<>>)
         \o MainOfGroups(list, Tail(ids))

identifyMainVideos(list) == MainOfGroups(list, BaseIds(list, {}))

\* extractVideoHash: the capture of \/([A-Za-z0-9_-]{30,})\. or ''
extractVideoHash(url) ==
    IF SlashRuns(url, 30) = {} THEN "" ELSE url[MinOf(SlashRuns(url, 30))]

IsDigits(t) == t \in {"100200300", "1080", "720", "480", "360"}

\* extractVideoId: \/videos\/([0-9]+), then video_id=([0-9]+); '' stands for null
extractVideoId(url) ==
    LET byPath == { i \in 1..(Len(url) - 2) :
                      url[i] = "/videos" /\ url[i + 1] = "/" /\ IsDigits(url[i + 2]) }
        byQuery == { i \in 1..(Len(url) - 1) : url[i] = "video_id=" /\ IsDigits(url[i + 1]) }
    IN  IF byPath # {} THEN url[MinOf(byPath) + 2]
        ELSE IF byQuery # {} THEN url[MinOf(byQuery) + 1]
        ELSE ""

\* extractVideoIdsFromContext: "video_id":"([0-9]+)" and "videoId":"([0-9]+)",
\* longer than 5; the documents hold no "is_video" or data-video-id text
extractVideoIdsFromContext(doc) ==
    { doc[i].text[1] : i \in { k \in DOMAIN doc :
        /\ doc[k].form = "json" /\ doc[k].key \in {"video_id", "videoId"}
        /\ Len(doc[k].text) = 1 /\ IsDigits(doc[k].text[1]) /\ TokLen(doc[k].text[1]) > 5 } }

limitResults(list, maxVideos) ==
    IF Len(list) <= maxVideos THEN list ELSE SubSeq(SortByScore(list), 1, maxVideos)

\* The places of a document in characters.  An item is written
\*   json, ldjson  "KEY":"T"      video  <video KEY"T">      bare  T
\* with every "/" of T doubled into "\/" when the item is escaped.
Slashes(t) ==
    CASE t \in {"https://", "http://", "ftp://"} -> 2
      [] t = "/o1/v/t2/f2" -> 4
      [] t \in {"/m412/", "/m540/", "/m366/", "/m78/", "/m69/"} -> 2
      [] t \in {"/", "/videos", "</video>"} -> 1
      [] OTHER -> 0

RawTokLen(t, esc) == TokLen(t) + (IF esc THEN Slashes(t) ELSE 0)

RECURSIVE RawLength(_, _)
RawLength(text, esc) ==
    IF text = <<>> THEN 0 ELSE RawTokLen(Head(text), esc) + RawLength(Tail(text), esc)

KeyLength(key) ==
    CASE key = "" -> 0
      [] key \in {"src=", "SRC="} -> 4
      [] key \in {"hd_src", "sd_src"} -> 6
      [] key = "video_id" -> 8
      [] key = "video_url" -> 9
      [] key = "contentUrl" -> 10
      [] key = "playable_url" -> 12
      [] key = "browser_native_sd_url" -> 21
      [] key = "playable_url_quality_hd" -> 23

\* the characters of an item before its text, and its length
TextOffset(item) ==
    CASE item.form \in {"json", "ldjson"} -> KeyLength(item.key) + 4
      [] item.form = "video" -> KeyLength(item.key) + 8
      [] OTHER -> 0

ItemLength(item) ==
    TextOffset(item) + RawLength(item.text, item.esc)
        + (CASE item.form \in {"json", "ldjson"} -> 1 [] item.form = "video" -> 2 [] OTHER -> 0)

RECURSIVE DocLength(_)
DocLength(doc) == IF doc = <<>> THEN 0 ELSE ItemLength(Head(doc)) + DocLength(Tail(doc))

\* the index in the document of the first character of item i
ItemStart(doc, i) == DocLength(SubSeq(doc, 1, i - 1))

\* the index of the first character of token j of item i, and the index after its last
TokenStart(doc, i, j) ==
    ItemStart(doc, i) + TextOffset(doc[i]) + RawLength(SubSeq(doc[i].text, 1, j - 1), doc[i].esc)

TokenEnd(doc, i, j) == TokenStart(doc, i, j) + RawTokLen(doc[i].text[j], doc[i].esc)

\* the keys of videoPostPatterns: "KEY":"[^"]+" and "video_id":\s*"[^"]+".  The
\* documents hold no "video_post", "story_attachment", "attachment":{ or
\* "media":{ text, which the other four patterns look for.
PostKeys ==
    {"video_id", "playable_url", "playable_url_quality_hd", "browser_native_hd_url",
     "browser_native_sd_url", "permalink_url", "permalinkUrl"}

\* videoPostContexts, each the pair of the bounds of
\* sourceCode.substring(max(0, index - 2000), min(length, index + 2000))
videoPostContexts(doc) ==
    { << IF ItemStart(doc, i) - 2000 < 0 THEN 0 ELSE ItemStart(doc, i) - 2000,
         IF ItemStart(doc, i) + 2000 > DocLength(doc) THEN DocLength(doc)
         ELSE ItemStart(doc, i) + 2000 >> :
        i \in { k \in DOMAIN doc :
                  doc[k].form = "json" /\ doc[k].key \in PostKeys /\ doc[k].text # <<>> } }

\* context.includes(videoHash)
ContextIncludes(doc, context, videoHash) ==
    \/ videoHash = ""
    \/ \E i \in DOMAIN doc : \E j \in DOMAIN doc[i].text :
          /\ doc[i].text[j] = videoHash
          /\ context[1] <= TokenStart(doc, i, j)
          /\ TokenEnd(doc, i, j) <= context[2]

\* (matchesContext || matchesVideoId) of the filter of contextualVideoFiltering
Correlates(video, doc) ==
    \/ \E context \in videoPostContexts(doc) :
          ContextIncludes(doc, context, extractVideoHash(video.url))
    \/ /\ extractVideoId(video.url) # ""
       /\ extractVideoId(video.url) \in extractVideoIdsFromContext(doc)

contextualVideos(list, doc) ==
    SelectSeq(list, LAMBDA video : Correlates(video, doc) /\ isMainContentVideo(video.url))

\* the secondary filtering of contextualVideoFiltering
highQualityVideos(list) ==
    SelectSeq(list, LAMBDA video :
        isHighQualityVideo(video.url) /\ isMainContentVideo(video.url))

\* a contextual filter without the secondary filtering
contextualOnly(list, doc) == limitResults(contextualVideos(list, doc), 15)

contextualVideoFiltering(list, doc) ==
    IF Len(contextualVideos(list, doc)) = 0 /\ Len(list) > 0
    THEN limitResults(highQualityVideos(list), 15)
    ELSE limitResults(contextualVideos(list, doc), 15)

----------------------------------------------------------------------------
(* The filters applied to a candidate list and a document *)

\* a url that 3000 characters of markup separate from the item before it
Far(url) == Bare(<<"~fill3000">> \o url)

DocItems ==
    { Json("playable_url", TRUE, FullUrl("https://", "/m412/", "~A1", "\\u0026")),
      Json("hd_src", FALSE, FullUrl("https://", "/m366/", "~B1", "&")),
      Json("video_id", FALSE, <<"100200300">>),
      Far(FullUrl("https://", "/m366/", "~B1", "&")) }

Docs == SeqsUpTo(DocItems, MaxItems)

NoDraw(url) == [u \in {url} |-> TRUE]

\* the candidate for a url: the filters read its url only
Cand(url) == createVideoObject(url, NoDraw(url))

CandUrls ==
    { FullUrl("https://", "/m412/", "~A1", "&"),
      FullUrl("https://", "/m69/", "~A2", "&"),
      FullUrl("https://", "/m366/", "~B1", "&"),
      FullUrl("https://", "/m412/", "~B1", "&") \o <<"&", "video_id=", "100200300">>,
      Cdn("https://", "/m540/", "~C1") \o Signed("&") \o Pad("&", "~sig250"),
      FullUrl("https://", "/m540/", "~B1", "&"),
      OtherUrl }

\* a signed url of the main-content form whose file name has 12 characters, so
\* that \/([A-Za-z0-9_-]{30,})\. has no match, and whose query ends in a
\* 250-character value followed by ".mp4"; it has no /videos/ or video_id=
HashlessUrl ==
    Cdn("https://", "/m412/", "~D1") \o Signed("&") \o Pad("&", "~sig250") \o <<".mp4">>

\* n candidates that all satisfy the main-content heuristic
MainListing(n) == [i \in 1..n |-> Cand(FullUrl("https://", "/m412/", ListingHash(i), "&"))]

\* n candidates of all different names that go round the eight format keys
FormatListing(n) ==
    [i \in 1..n |->
        Cand(Cdn("https://",
                 CASE i % 8 = 1 -> "/m412/" [] i % 8 = 2 -> "/m540/" [] i % 8 = 3 -> "/m366/"
                   [] i % 8 = 4 -> "/m78/" [] OTHER -> "/m69/",
                 ListingHash(i))
             \o Signed("&") \o Pad("&", "~sig120")
             \o (CASE i % 8 = 5 -> <<"&", "q=", "1080">> [] i % 8 = 6 -> <<"&", "q=", "720">>
                   [] i % 8 = 7 -> <<"&", "q=", "480">> [] OTHER -> <<>>))]

CandLists ==
    SeqsUpTo({ Cand(u) : u \in CandUrls }, MaxCands)
        \cup { MainListing(n) : n \in (MaxListing - 6)..(MaxListing - 5) }
        \cup { FormatListing(n) : n \in (MaxListing - 1)..MaxListing }
        \cup { <<Cand(HashlessUrl)>> \o list : list \in SeqsUpTo({ Cand(u) : u \in CandUrls }, 1) }

\* the cap of limitToMainContent
ResultCap == 20

\* getVideoFormatKey
getVideoFormatKey(url) ==
    IF Includes(url, "/m412/") THEN "hd-m412"
    ELSE IF Includes(url, "/m540/") THEN "hd-m540"
    ELSE IF Includes(url, "/m366/") THEN "sd-m366"
    ELSE IF Includes(url, "/m78/") THEN "audio-m78"
    ELSE IF Includes(url, "1080") THEN "hd-1080"
    ELSE IF Includes(url, "720") THEN "hd-720"
    ELSE IF Includes(url, "480") THEN "sd-480"
    ELSE "other"

\* limitToMainContent: a list of more than 20 is sorted by score, grouped by
\* format key in the order the keys appear, and the first 3 of every group are
\* returned
limitToMainContent(list) ==
    LET RECURSIVE FormatKeys(_, _)
        FormatKeys(rest, seen) ==
            IF rest = <<>> THEN <<>>
            ELSE IF getVideoFormatKey(Head(rest).url) \in seen
                 THEN FormatKeys(Tail(rest), seen)
            ELSE <<getVideoFormatKey(Head(rest).url)>>
                    \o FormatKeys(Tail(rest), seen \cup {getVideoFormatKey(Head(rest).url)})
        FirstThree(group) == SubSeq(group, 1, IF Len(group) < 3 THEN Len(group) ELSE 3)
        RECURSIVE TopVideos(_, _)
        TopVideos(sorted, keys) ==
            IF keys = <<>> THEN <<>>
            ELSE FirstThree(SelectSeq(sorted,
                                LAMBDA video : getVideoFormatKey(video.url) = Head(keys)))
                    \o TopVideos(sorted, Tail(keys))
        Grouped(sorted) == TopVideos(sorted, FormatKeys(sorted, {}))
    IN  IF Len(list) <= ResultCap THEN list ELSE Grouped(SortByScore(list))

InitFilter ==
    /\ PageLoaded
    /\ limited = <<>>
    /\ lastIndex = [index \in 0..(NumPatterns - 1) |-> 0]
    /\ body = PageBody
    /\ consumed = 0
    /\ fetched = {}
    /\ sourceCode \in Docs
    /\ cands \in CandLists
    /\ pc = "filter"
    /\ cleaned = <<>>
    /\ videos = <<>>
    /\ foundUrls = {}
    /\ origin = NoOrigin
    /\ stages = <<>>
    /\ returned = <<>>
    /\ responses = <<>>
    /\ mainVideos = <<>>
    /\ contextual = <<>>

\* each behaviour applies one of the two filters to the candidates
ApplyIdentifyMainVideos ==
    /\ pc = "filter"
    /\ mainVideos' = identifyMainVideos(cands)
    /\ pc' = "identified"
    /\ UNCHANGED <<front, limited, lastIndex, body, consumed, fetched, sourceCode, cleaned, videos, foundUrls, origin, stages, returned,
                   responses, cands, contextual>>

ApplyContextualVideoFiltering ==
    /\ pc = "filter"
    /\ contextual' = contextualVideoFiltering(cands, sourceCode)
    /\ pc' = "contextual"
    /\ UNCHANGED <<front, limited, lastIndex, body, consumed, fetched, sourceCode, cleaned, videos, foundUrls, origin, stages, returned,
                   responses, cands, mainVideos>>

\* limitToMainContent sorts its argument in place when it is over the cap
ApplyLimitToMainContent ==
    /\ pc = "filter"
    /\ limited' = limitToMainContent(cands)
    /\ cands' = IF Len(cands) <= ResultCap THEN cands ELSE SortByScore(cands)
    /\ pc' = "limited"
    /\ UNCHANGED <<front, lastIndex, body, consumed, fetched, sourceCode, cleaned, videos, foundUrls,
                   origin, stages, returned, responses, mainVideos, contextual>>

NextFilter ==
    \/ ApplyIdentifyMainVideos
    \/ ApplyLimitToMainContent
    \/ ApplyContextualVideoFiltering

SpecFilter == InitFilter /\ [][NextFilter]_vars

----------------------------------------------------------------------------
(* GET /proxy-video *)

\* the values of the query parameter url: none, a CDN url, a url of
\* video.facebook.com, a url of another site, and urls of another site that
\* name the CDN in the query or in the path
ProxyUrls ==
    { <<>>,
      FullUrl("https://", "/m412/", "~A1", "&"),
      <<"https://", "video", ".facebook.com", "/videos", "/", "~D1", ".mp4">>,
      OtherUrl,
      <<"https://", "media", ".example.com", "/", "~D1", ".mp4", "?", "q=",
        "scontent", ".fna.fbcdn.net">>,
      <<"https://", "media", ".example.com", "/", "video", ".facebook.com", "/", "~D1", ".mp4">> }

\* the host of a url: what stands between the scheme and the first / or ?
HostOf(url) ==
    LET ends == { k \in 2..Len(url) : FirstChar(url[k]) \in {"/", "?"} }
    IN  SubSeq(url, 2, IF ends = {} THEN Len(url) ELSE MinOf(ends) - 1)

\* the status of the answer for what the upstream fetch gave: a response with
\* Content-Range is passed on as 206, a response that is not ok or a failed
\* fetch ends in the catch
ProxyStatus(upstream) ==
    CASE upstream = "ok" -> 200
      [] upstream = "partial" -> 206
      [] upstream = "failed" -> 500

InitProxy ==
    /\ PageLoaded
    /\ limited = <<>>
    /\ lastIndex = [index \in 0..(NumPatterns - 1) |-> 0]
    /\ body = PageBody
    /\ consumed = 0
    /\ fetched = {}
    /\ sourceCode = <<>>
    /\ pc = "proxy"
    /\ cleaned = <<>>
    /\ videos = <<>>
    /\ foundUrls = {}
    /\ origin = NoOrigin
    /\ stages = <<>>
    /\ returned = <<>>
    /\ responses = <<>>
    /\ cands = <<>>
    /\ mainVideos = <<>>
    /\ contextual = <<>>

\* the handler of GET /proxy-video for one request
ProxyVideo ==
    /\ pc = "proxy"
    /\ Len(responses) < MaxCalls
    /\ \E url \in ProxyUrls : \E range \in {"", "bytes=100-"} :
       \E upstream \in {"ok", "partial", "failed"} :
          IF url = <<>>
          THEN /\ responses' = Append(responses, [status |-> 400, url |-> url])
               /\ UNCHANGED fetched
          ELSE IF ~Includes(url, "fbcdn.net") /\ ~Includes(url, "facebook.com")
          THEN /\ responses' = Append(responses, [status |-> 400, url |-> url])
               /\ UNCHANGED fetched
          ELSE /\ fetched' = fetched \cup
                     {[url |-> url, range |-> IF range = "" THEN "bytes=0-" ELSE range]}
               /\ responses' = Append(responses, [status |-> ProxyStatus(upstream), url |-> url])
    /\ UNCHANGED <<front, limited, lastIndex, body, consumed, sourceCode, pc, cleaned, videos, foundUrls, origin, stages,
                   returned, cands, mainVideos, contextual>>

SpecProxy == InitProxy /\ [][ProxyVideo]_vars

----------------------------------------------------------------------------
(* The page: the submit handler, extractVideoLinks and the error message.
   A handler runs to its first await without interruption; the part of
   extractVideoLinks after the awaits runs when the response has arrived. *)

\* what the submit handler tests of the trimmed text: '' is empty, "short" is
\* a text of less than 1000 characters, "page" a text of 1000 or more
TextareaValues == {"", "short", "page"}

\* what a settled fetch leads to: displayResults, the message for an empty
\* list, or the catch (a response that is not ok, or a failed fetch)
Outcomes == {"videos", "none", "failed"}

\* the delay of setTimeout(hideError, 10000), in seconds
ErrorTimeout == 10

InitFront ==
    /\ lastIndex = [index \in 0..(NumPatterns - 1) |-> 0]
    /\ body = PageBody
    /\ consumed = 0
    /\ fetched = {}
    /\ sourceCode = <<>>
    /\ pc = "page"
    /\ cleaned = <<>>
    /\ videos = <<>>
    /\ foundUrls = {}
    /\ origin = NoOrigin
    /\ stages = <<>>
    /\ returned = <<>>
    /\ responses = <<>>
    /\ cands = <<>>
    /\ mainVideos = <<>>
    /\ limited = <<>>
    /\ contextual = <<>>
    /\ PageLoaded

\* showLoading(loading)
showLoading(loading) ==
    extractBtn' = [disabled |-> loading, spinner |-> IF loading THEN "block" ELSE "none"]

\* showError(message): the text, the display and one more timer, which nothing
\* clears; timers due at the same second are one
showError(message) ==
    /\ Cardinality(timers) < MaxTimers
    /\ errorMessage' = [display |-> "flex", text |-> message, since |-> now]
    /\ timers' = timers \cup {now + ErrorTimeout}

\* hideError()
hideError == errorMessage' = [errorMessage EXCEPT !.display = "none"]

\* hideResults()
hideResults == results' = [results EXCEPT !.display = "none"]

\* the input event of the textarea
Input ==
    /\ pc = "page"
    /\ \E value \in TextareaValues \ {textarea} : textarea' = value
    /\ UNCHANGED <<server, extractBtn, inFlight, submitted, results, errorMessage, timers, now>>

\* the click handler of clearBtn, which Escape also runs when the textarea has a value
ClearForm ==
    /\ pc = "page"
    /\ \E key \in {"click", "Escape"} : key = "Escape" => textarea # ""
    /\ textarea' = ""
    /\ hideResults
    /\ hideError
    /\ UNCHANGED <<server, extractBtn, inFlight, submitted, timers, now>>

\* the submit handler of extractForm and extractVideoLinks up to its fetch.  A
\* click of extractBtn submits the form only while the button is enabled;
\* Ctrl+Enter dispatches the submit event whatever the button is.
Submit ==
    /\ pc = "page"
    /\ \E key \in {"click", "Ctrl+Enter"} : key = "click" => ~extractBtn.disabled
    /\ IF textarea = ""
       THEN /\ showError(ErrorText("empty", 0))
            /\ UNCHANGED <<extractBtn, inFlight, submitted, results>>
       ELSE IF textarea = "short"
       THEN /\ showError(ErrorText("short", 0))
            /\ UNCHANGED <<extractBtn, inFlight, submitted, results>>
       ELSE /\ submitted < MaxRequests
            /\ showLoading(TRUE)
            /\ hideError
            /\ hideResults
            /\ submitted' = submitted + 1
            /\ inFlight' = inFlight \cup {submitted + 1}
            /\ UNCHANGED timers
    /\ UNCHANGED <<server, textarea, now>>

\* extractVideoLinks from the arrival of the response of a request to the end of its finally
Settle ==
    /\ pc = "page"
    /\ \E request \in inFlight : \E outcome \in Outcomes :
          /\ inFlight' = inFlight \ {request}
          /\ IF outcome = "videos"
             THEN /\ results' = [display |-> "block", of |-> request]
                  /\ UNCHANGED <<errorMessage, timers>>
             ELSE /\ showError(ErrorText(outcome, request))
                  /\ UNCHANGED results
    /\ showLoading(FALSE)
    /\ UNCHANGED <<server, textarea, submitted, now>>

\* the online and offline handlers of window
Online ==
    /\ pc = "page"
    /\ hideError
    /\ UNCHANGED <<server, textarea, extractBtn, inFlight, submitted, results, timers, now>>

Offline ==
    /\ pc = "page"
    /\ showError(ErrorText("offline", 0))
    /\ UNCHANGED <<server, textarea, extractBtn, inFlight, submitted, results, now>>

\* a timer of showError is due and runs hideError
TimerFires ==
    /\ pc = "page"
    /\ \E due \in timers :
          /\ due <= now
          /\ timers' = timers \ {due}
    /\ hideError
    /\ UNCHANGED <<server, textarea, extractBtn, inFlight, submitted, results, now>>

\* a second passes; a timer that is due runs before the next second
Tick ==
    /\ pc = "page"
    /\ now < MaxTime
    /\ \A due \in timers : due > now
    /\ now' = now + 1
    /\ UNCHANGED <<server, textarea, extractBtn, inFlight, submitted, results, errorMessage, timers>>

NextFront ==
    \/ Input
    \/ ClearForm
    \/ Submit
    \/ Settle
    \/ Online
    \/ Offline
    \/ TimerFires
    \/ Tick

SpecFront == InitFront /\ [][NextFront]_vars

----------------------------------------------------------------------------
(* Properties of extractVideos and of the route *)

\* C1: the list extractVideos returns has no two videos with the same url,
\* whichever stage pushed them
C1_UniqueUrls ==
    \A k \in DOMAIN returned : \A i \in DOMAIN returned[k] : \A j \in DOMAIN returned[k] :
        returned[k][i].url = returned[k][j].url => i = j

\* the page shows one url in two places, and the url is returned
C1_Witness ==
    /\ returned # <<>>
    /\ \E i \in DOMAIN cleaned : \E j \in DOMAIN cleaned :
          /\ i < j
          /\ cleaned[i].text = cleaned[j].text
          /\ \E n \in DOMAIN returned[1] : returned[1][n].url = cleaned[i].text

\* C2 (as stated): every video extractVideos returns has a url isValidVideoUrl accepts
C2_AllValid ==
    pc = "respond" => \A i \in DOMAIN videos : isValidVideoUrl(videos[i].url)

\* a video that rule 31 pushed without the validator
ByPermissiveRule(video) ==
    /\ video.url \in DOMAIN origin
    /\ origin[video.url][1] = "patterns"
    /\ origin[video.url][2] = 31
    /\ Length(video.url) >= 20
    /\ (StartsWith(video.url, "http://") \/ StartsWith(video.url, "https://"))
    /\ Includes(video.url, "scontent")
    /\ Includes(video.url, ".mp4")

\* C2 (amended): every video extractVideos returns has a url isValidVideoUrl
\* accepts, or was pushed by rule 31 and its url has at least 20 characters,
\* starts with http:// or https:// and contains scontent and .mp4
C2_ValidOrPermissive ==
    pc = "respond" =>
        \A i \in DOMAIN videos : isValidVideoUrl(videos[i].url) \/ ByPermissiveRule(videos[i])

\* a returned video the validator rejects, pushed by rule 31
C2_Witness ==
    /\ pc = "respond"
    /\ \E i \in DOMAIN videos : ~isValidVideoUrl(videos[i].url) /\ ByPermissiveRule(videos[i])

\* C3: the list extractVideos returns and the videos of every successful
\* response have at most 20 entries
C3_Capped ==
    /\ \A k \in DOMAIN returned : Len(returned[k]) <= ResultCap
    /\ \A k \in DOMAIN responses :
          responses[k].success => Len(responses[k].videos) <= ResultCap

\* C4: two runs of extractVideos on the same page return the same videos in
\* the same order with the same fields
C4_SameOutput ==
    Len(returned) >= 2 => returned[1] = returned[2]

\* C5: the list extractVideos returns is ordered by non-increasing
\* getQualityScore, videos of equal score in their discovery order
C5_SortedByScore ==
    pc = "respond" =>
        \A i \in DOMAIN videos : \A j \in DOMAIN videos :
            i < j =>
                /\ getQualityScore(videos[i].url) >= getQualityScore(videos[j].url)
                /\ getQualityScore(videos[i].url) = getQualityScore(videos[j].url)
                      => origin[videos[i].url][3] < origin[videos[j].url][3]

\* C10: isValidVideoUrl accepts a url only if its query has _nc_cat=, _nc_ht=
\* and one of oh= and _nc_ohc=
C10_ThreeMarkers ==
    \A i \in DOMAIN videos :
        isValidVideoUrl(videos[i].url) =>
            /\ Includes(videos[i].url, "_nc_cat=")
            /\ Includes(videos[i].url, "_nc_ht=")
            /\ IncludesAny(videos[i].url, {"oh=", "_nc_ohc="})

\* the urls of the cleaned page that isValidVideoUrl accepts
ValidPageUrls == { u \in { cleanHtml(sourceCode)[i].text : i \in DOMAIN sourceCode } :
                     isValidVideoUrl(u) }

UrlSet(list) == { list[i].url : i \in DOMAIN list }

\* C6: when the page has two valid urls of one baseIdentity, one of format
\* m412 and one of format m69, the result has the m412 one and not the m69 one
C6_OnlyHighQuality ==
    \A high \in ValidPageUrls : \A low \in ValidPageUrls :
        /\ extractBaseVideoId(high) = extractBaseVideoId(low)
        /\ Includes(high, "/m412/")
        /\ Includes(low, "/m69/")
        => /\ \A k \in DOMAIN returned :
                 high \in UrlSet(returned[k]) /\ low \notin UrlSet(returned[k])
           /\ \A k \in DOMAIN responses :
                 high \in UrlSet(responses[k].videos) /\ low \notin UrlSet(responses[k].videos)

----------------------------------------------------------------------------
(* Properties of the filters *)

ContentComplete(url) == analyzeContentType(url).hasVideo /\ analyzeContentType(url).hasAudio

\* C7: identifyMainVideos returns at most one video per extractBaseVideoId, and
\* none for a group that has no member with video and audio
C7_OnePerIdentity ==
    pc = "identified" =>
        /\ \A i \in DOMAIN mainVideos : \A j \in DOMAIN mainVideos :
              extractBaseVideoId(mainVideos[i].url) = extractBaseVideoId(mainVideos[j].url)
                  => i = j
        /\ \A i \in DOMAIN mainVideos : \E k \in DOMAIN cands :
              /\ extractBaseVideoId(cands[k].url) = extractBaseVideoId(mainVideos[i].url)
              /\ ContentComplete(cands[k].url)

\* a group of two different urls gave one video, a group without a complete
\* member gave none
C7_Witness ==
    /\ pc = "identified"
    /\ Len(mainVideos) = 1
    /\ \E i \in DOMAIN cands : \E j \in DOMAIN cands :
          /\ cands[i].url # cands[j].url
          /\ extractBaseVideoId(cands[i].url) = extractBaseVideoId(cands[j].url)
          /\ extractBaseVideoId(cands[i].url) = extractBaseVideoId(mainVideos[1].url)
    /\ \E k \in DOMAIN cands :
          /\ extractBaseVideoId(cands[k].url) # extractBaseVideoId(mainVideos[1].url)
          /\ \A m \in DOMAIN cands :
                extractBaseVideoId(cands[m].url) = extractBaseVideoId(cands[k].url)
                    => ~ContentComplete(cands[m].url)

\* C8: when a candidate satisfies isMainContentVideo, contextualVideoFiltering
\* returns a non-empty list, with or without correlation
C8_NonEmpty ==
    (pc = "contextual" /\ \E k \in DOMAIN cands : isMainContentVideo(cands[k].url))
        => contextual # <<>>

\* a candidate satisfies the heuristic, no candidate correlates with the document
C8_Witness ==
    /\ pc = "contextual"
    /\ \E k \in DOMAIN cands : isMainContentVideo(cands[k].url)
    /\ \A k \in DOMAIN cands : ~Correlates(cands[k], sourceCode)
    /\ contextual # <<>>

\* the list the secondary filtering gives on the candidates
RelaxedFallback == limitResults(highQualityVideos(cands), 15)

\* C9 (as stated): the list contextualVideoFiltering returns is at least as
\* long as the list of its relaxed fallback on the same candidates
C9_AtLeastFallback ==
    pc = "contextual" => Len(contextual) >= Len(RelaxedFallback)

\* C9 (amended): the list contextualVideoFiltering returns is never longer than
\* the list of its relaxed fallback, and is that list when no candidate both
\* correlates with the document and satisfies isMainContentVideo
C9_FallbackBounds ==
    pc = "contextual" =>
        /\ Len(contextual) <= Len(RelaxedFallback)
        /\ (\A k \in DOMAIN cands :
               ~(Correlates(cands[k], sourceCode) /\ isMainContentVideo(cands[k].url)))
              => contextual = RelaxedFallback

\* some candidate correlates, and the list is shorter than the relaxed fallback's
C9_Witness ==
    /\ pc = "contextual"
    /\ \E k \in DOMAIN cands :
          Correlates(cands[k], sourceCode) /\ isMainContentVideo(cands[k].url)
    /\ Len(contextual) < Len(RelaxedFallback)

----------------------------------------------------------------------------
(* Properties of the validator, the scanner and the normaliser *)

\* C11: no url isValidVideoUrl accepts contains one of the markers fragment,
\* chunk, init.mp4, .mpd, manifest, segment, dash
C11_NoExclusionMarker ==
    \A i \in DOMAIN videos :
        isValidVideoUrl(videos[i].url) => ~IncludesAny(videos[i].url,
            {"fragment", "chunk", "init.mp4", ".mpd", "manifest", "segment", "dash"})

\* C12: no video of any stage of extractVideos has a url shorter than 20
\* characters, with < or >, with BaseURL, SegmentBase or indexRange, or that
\* does not start with http:// or https://
C12_NoFragmentUrls ==
    \A i \in DOMAIN videos :
        /\ Length(videos[i].url) >= 20
        /\ ~IncludesAny(videos[i].url, {"<", ">", "BaseURL", "SegmentBase", "indexRange"})
        /\ (StartsWith(videos[i].url, "http://") \/ StartsWith(videos[i].url, "https://"))

\* the url stands in the cleaned page between <BaseURL> and </BaseURL>, and
\* nowhere else
OnlyInBaseURL(url, html) ==
    /\ \E i \in DOMAIN html : html[i].text = <<"<BaseURL>">> \o url \o <<"</BaseURL>">>
    /\ \A i \in DOMAIN html :
          html[i].text # <<"<BaseURL>">> \o url \o <<"</BaseURL>">>
              => \A p \in DOMAIN html[i].text : \A e \in DOMAIN html[i].text :
                    SubSeq(html[i].text, p, e) # url

\* C13: a url that the page shows only between <BaseURL> and </BaseURL> is
\* the url of no video extractVideos returns
C13_NoManifestFragment ==
    \A k \in DOMAIN returned : \A i \in DOMAIN returned[k] :
        ~OnlyInBaseURL(returned[k][i].url, cleaned)

\* C14: cleanHtml of a text cleanHtml returned is that text
C14_Idempotent ==
    cleaned = cleanHtml(sourceCode) => cleanHtml(cleaned) = cleaned

----------------------------------------------------------------------------
(* Properties of the routes *)

\* sourceCode is missing or no string, is shorter than 1000 characters, or has
\* neither <html nor <!DOCTYPE
InvalidSource(b) == b.type # "string" \/ b.length < 1000 \/ b.markup = "none"

\* C15 (as stated): a request with such a sourceCode is answered with status 400,
\* and extractVideos is not called for it
C15_Rejected400 ==
    InvalidSource(body) =>
        /\ pc = "idle" /\ stages = <<>> /\ returned = <<>>
        /\ \A k \in DOMAIN responses : responses[k].status = 400

\* C15 (amended): extractVideos is never called for a request with such a
\* sourceCode, and the request is answered with status 400 whenever the body
\* parser and the rate limiter let it through to the route
C15_RouteRejects ==
    /\ [](InvalidSource(body) => pc = "idle" /\ stages = <<>> /\ returned = <<>>)
    /\ [][(InvalidSource(body) /\ responses' # responses
              /\ BodyBytes(body) <= ParserLimit /\ consumed < RatePoints)
            => responses'[Len(responses')].status = 400]_vars

\* a sourceCode of 999 characters with <html has been answered with status 400
C15_Witness ==
    /\ body.type = "string" /\ body.length < 1000 /\ body.markup = "<html"
    /\ InvalidSource(body)
    /\ responses # <<>>
    /\ responses[1].status = 400
    /\ pc = "idle" /\ returned = <<>>

\* C16: a request whose sourceCode is longer than 50MB is answered with status
\* 400, and extractVideos is not called for it
C16_TooLarge400 ==
    (body.type = "string" /\ body.length > MaxSourceLength) =>
        /\ pc = "idle" /\ stages = <<>> /\ returned = <<>>
        /\ \A k \in DOMAIN responses : responses[k].status = 400

\* C17: a request the route accepts and in which no video qualifies is answered
\* with status 200, success, an empty videos list, count 0 and the message that
\* no video was found; an empty result never has an error status
C17_EmptyResult ==
    (BodyBytes(body) <= ParserLimit /\ validationError(body) = "") =>
        /\ \A k \in DOMAIN responses :
              /\ responses[k].status \in {200, 429}
              /\ (responses[k].status = 200 /\ responses[k].videos = <<>>) =>
                    /\ responses[k].success
                    /\ responses[k].count = 0
                    /\ responses[k].message = "none"
        /\ (/\ pc = "idle" /\ responses # <<>> /\ stages # <<>>
            /\ responses[Len(responses)].status # 429
            /\ facebookVideos(videos) = <<>>
            /\ additionalUrls(sourceCode, {}) = <<>>)
              => /\ responses[Len(responses)].status = 200
                 /\ responses[Len(responses)].success
                 /\ responses[Len(responses)].videos = <<>>
                 /\ responses[Len(responses)].count = 0
                 /\ responses[Len(responses)].message = "none"

\* a page with a url that does not qualify has been answered with the empty result
C17_Witness ==
    /\ BodyBytes(body) <= ParserLimit /\ validationError(body) = ""
    /\ sourceCode # <<>>
    /\ pc = "idle" /\ stages # <<>>
    /\ facebookVideos(videos) = <<>>
    /\ responses # <<>>
    /\ responses[1].status = 200 /\ responses[1].success
    /\ responses[1].videos = <<>> /\ responses[1].count = 0
    /\ responses[1].message = "none"

\* the front end: the videos displayResults puts in the grid under the heading
\* "Found n Videos with Audio & Video", for a response of the route
displayResults(response) ==
    IF response.status = 200 /\ Len(response.videos) > 0 THEN response.videos ELSE <<>>

\* C19: every video of a successful response, and every video the front end
\* displays, has hasVideo and hasAudio
C19_AudioAndVideo ==
    \A k \in DOMAIN responses :
        /\ responses[k].success =>
              \A i \in DOMAIN responses[k].videos :
                  responses[k].videos[i].hasVideo /\ responses[k].videos[i].hasAudio
        /\ \A i \in DOMAIN displayResults(responses[k]) :
              /\ displayResults(responses[k])[i].contentType.hasVideo
              /\ displayResults(responses[k])[i].contentType.hasAudio

\* C20: a match whose percent-decoding in decodeUrl throws gives no video: no
\* returned url holds the sequence %zz that made decodeURIComponent throw
C20_FailedDecodeDropped ==
    \A k \in DOMAIN returned : \A i \in DOMAIN returned[k] :
        \A j \in DOMAIN returned[k][i].url : returned[k][i].url[j] # "%zz"

\* C18: GET /proxy-video fetches only a url whose host is of fbcdn.net or
\* facebook.com, and answers 400 to a url of any other host
C18_OnlyCdnHost ==
    /\ \A f \in fetched :
          Includes(HostOf(f.url), "fbcdn.net") \/ Includes(HostOf(f.url), "facebook.com")
    /\ \A k \in DOMAIN responses :
          (/\ ~Includes(HostOf(responses[k].url), "fbcdn.net")
           /\ ~Includes(HostOf(responses[k].url), "facebook.com"))
              => responses[k].status = 400

----------------------------------------------------------------------------
(* Properties of the calls of extractVideos *)

C22_FallbackIffEmpty ==
    pc \in {"extract", "fallback", "cheerio", "structured", "sort", "respond"} =>
        /\ \E n \in 0..4 :
              \/ stages = SubSeq(<<"patterns", "fallback", "cheerio", "structured">>, 1, n)
              \/ stages = SubSeq(<<"patterns", "cheerio", "structured">>, 1, n)
        /\ Len(stages) >= 2 =>
              (stages[2] = "fallback"
                  <=> \A u \in DOMAIN origin : origin[u][1] # "patterns")
        /\ (pc = "fallback") <=> (stages = <<"patterns">> /\ videos = <<>>)
        /\ (\E u \in DOMAIN origin : origin[u][1] = "patterns")
              => \A u \in DOMAIN origin : origin[u][1] # "fallback"

\* a call in which the rules pushed nothing and the fallback scan pushed a video
C22_Witness ==
    /\ pc = "respond"
    /\ stages = <<"patterns", "fallback", "cheerio", "structured">>
    /\ \E u \in DOMAIN origin : origin[u][1] = "fallback"

\* C23: a video of extractVideos whose url isValidVideoUrl rejects was pushed by
\* rule 31 and its url contains scontent and .mp4; a video pushed by any other
\* rule or by any other stage has a url isValidVideoUrl accepts
C23_OnlyRule31Bypasses ==
    \A u \in DOMAIN origin :
        /\ ~isValidVideoUrl(u) =>
              /\ origin[u][1] = "patterns" /\ origin[u][2] = 31
              /\ Includes(u, "scontent") /\ Includes(u, ".mp4")
        /\ ~(origin[u][1] = "patterns" /\ origin[u][2] = 31) => isValidVideoUrl(u)

\* a call with a video rule 31 pushed past the validator and a video of another
\* rule
C23_Witness ==
    /\ pc = "respond"
    /\ \E u \in DOMAIN origin : origin[u][2] = 31 /\ ~isValidVideoUrl(u)
    /\ \E u \in DOMAIN origin :
          origin[u][1] = "patterns" /\ origin[u][2] # 31 /\ isValidVideoUrl(u)

----------------------------------------------------------------------------
(* Properties of the grouping, the cap and the sort *)

\* C24: the video selectBestVideoFromGroup returns for a group has video and
\* audio, no member of the group with video and audio has a higher
\* getQualityScore, and no such member with the same score stands before it
C24_BestOfGroup ==
    pc = "identified" =>
        \A i \in DOMAIN mainVideos :
            /\ analyzeContentType(mainVideos[i].url).hasVideo
            /\ analyzeContentType(mainVideos[i].url).hasAudio
            /\ \E k \in DOMAIN cands :
                  /\ cands[k] = mainVideos[i]
                  /\ \A m \in DOMAIN cands :
                        (/\ extractBaseVideoId(cands[m].url) = extractBaseVideoId(cands[k].url)
                         /\ analyzeContentType(cands[m].url).hasVideo
                         /\ analyzeContentType(cands[m].url).hasAudio)
                            => /\ getQualityScore(cands[m].url) <= getQualityScore(cands[k].url)
                               /\ (m < k => getQualityScore(cands[m].url)
                                               < getQualityScore(cands[k].url))

\* a group of a lower score first, then two different urls tied at the highest
\* score: the first of the two is selected
C24_Witness ==
    /\ pc = "identified"
    /\ Len(cands) = 3
    /\ extractBaseVideoId(cands[1].url) = extractBaseVideoId(cands[2].url)
    /\ extractBaseVideoId(cands[2].url) = extractBaseVideoId(cands[3].url)
    /\ getQualityScore(cands[1].url) < getQualityScore(cands[2].url)
    /\ getQualityScore(cands[2].url) = getQualityScore(cands[3].url)
    /\ cands[2].url # cands[3].url
    /\ mainVideos = <<cands[2]>>

\* C25: the list limitToMainContent returns has at most 20 entries
C25_LimitedToCap ==
    pc = "limited" => Len(limited) <= ResultCap

\* C26: the list sortVideosByQuality returns follows the rank 4K, 2K, HD, SD,
\* Low, Unknown Quality: no video precedes a video whose label ranks strictly
\* earlier, so a 4K video precedes every video of another label
C26_SortedByLabel ==
    pc = "respond" =>
        \A i \in DOMAIN videos : \A j \in DOMAIN videos :
            i < j => qualityOrder(videos[i].quality) <= qualityOrder(videos[j].quality)

\* C27: a candidate of contextualVideoFiltering whose url yields no hash
\* (extractVideoHash returns '') and no video id is not counted as correlated
\* with a post context: it is retained only through the relaxed fallback, taken
\* when no candidate is contextual
C27_HashlessOnlyByFallback ==
    pc = "contextual" =>
        \A i \in DOMAIN contextual :
            (extractVideoHash(contextual[i].url) = "" /\ extractVideoId(contextual[i].url) = "")
                => Len(contextualVideos(cands, sourceCode)) = 0

----------------------------------------------------------------------------
(* Properties of the page *)

\* C28: the extract button is disabled and the spinner is shown exactly while
\* at least one extraction request is in flight, whatever the order of the
\* submissions (button or Ctrl+Enter) and of the completions
C28_LoadingWhileInFlight ==
    pc = "page" =>
        /\ extractBtn.disabled = (inFlight # {})
        /\ (extractBtn.spinner = "block") = (inFlight # {})

\* C29: once every request has completed, the results or the error of a
\* request that the page shows are those of the request submitted last
C29_LatestOutcomeShown ==
    (pc = "page" /\ inFlight = {} /\ submitted > 0) =>
        /\ results.display = "block" => results.of = submitted
        /\ (errorMessage.display = "flex" /\ errorMessage.text.request > 0)
              => errorMessage.text.request = submitted

\* C30: a timer of showError hides the error that is visible only when that
\* error has been visible for 10 seconds
C30_TenSeconds ==
    [][(errorMessage.display = "flex" /\ errorMessage'.display = "none" /\ timers' # timers)
          => now >= errorMessage.since + ErrorTimeout]_vars

====
